---- MODULE Spec2Model ----
(***************************************************************************)
(* A model of src/src/script.c (libwally-core): the integer codecs, the    *)
(* push codec, the scriptPubkey classifier and the script builders.        *)
(*                                                                         *)
(* The library keeps no state between calls.  A behaviour of the model is  *)
(* one caller: Init draws the operation and its inputs, one action per     *)
(* operation applies the function as the C code computes it, and a second  *)
(* action models what the caller does with the result (decode what was     *)
(* encoded, or call the builder again with a buffer of the reported size). *)
(***************************************************************************)
EXTENDS Integers, Sequences, FiniteSets, TLC

VARIABLES op, args, pc, res, res2

vars == <<op, args, pc, res, res2>>

(***************************************************************************)
(* Return codes and sizes                                                   *)
(***************************************************************************)
WALLY_OK == 0
WALLY_ERROR == -1
WALLY_EINVAL == -2
WALLY_ENOMEM == -3

OP_0 == 0
OP_PUSHDATA1 == 76
OP_PUSHDATA2 == 77
OP_PUSHDATA4 == 78
OP_1 == 81
OP_16 == 96
OP_IF == 99
OP_NOTIF == 100
OP_ELSE == 103
OP_ENDIF == 104
OP_RETURN == 106
OP_IFDUP == 115
OP_DEPTH == 116
OP_DROP == 117
OP_DUP == 118
OP_EQUAL == 135
OP_EQUALVERIFY == 136
OP_1SUB == 140
OP_HASH160 == 169
OP_CHECKSIG == 172
OP_CHECKSIGVERIFY == 173
OP_CHECKMULTISIG == 174
OP_CHECKSEQUENCEVERIFY == 178

EC_PUBLIC_KEY_LEN == 33
EC_PUBLIC_KEY_UNCOMPRESSED_LEN == 65
EC_XONLY_PUBLIC_KEY_LEN == 32
EC_SIGNATURE_LEN == 64
EC_SIGNATURE_DER_MAX_LEN == 72
DER_AND_HASH_MAX_LEN == EC_SIGNATURE_DER_MAX_LEN + 1
WALLY_SCRIPTSIG_P2PKH_MAX_LEN == 140
HASH160_LEN == 20
SHA256_LEN == 32
WALLY_MAX_OP_RETURN_LEN == 80
WALLY_WITNESSSCRIPT_MAX_LEN == 42
WALLY_SCRIPTPUBKEY_P2PKH_LEN == 25
WALLY_SCRIPTPUBKEY_P2SH_LEN == 23
WALLY_SCRIPTPUBKEY_P2WPKH_LEN == 22
WALLY_SCRIPTPUBKEY_P2WSH_LEN == 34
WALLY_SCRIPTPUBKEY_P2TR_LEN == 34

WALLY_SCRIPT_TYPE_UNKNOWN == 0
WALLY_SCRIPT_TYPE_OP_RETURN == 1
WALLY_SCRIPT_TYPE_P2PKH == 2
WALLY_SCRIPT_TYPE_P2SH == 4
WALLY_SCRIPT_TYPE_P2WPKH == 8
WALLY_SCRIPT_TYPE_P2WSH == 16
WALLY_SCRIPT_TYPE_MULTISIG == 32
WALLY_SCRIPT_TYPE_P2TR == 64
WALLY_SCRIPT_TYPE_CSV2OF2_1 == 128
WALLY_SCRIPT_TYPE_CSV2OF2_1_OPT == 256

\* flag bits; a flags word is modelled as the set of its bits
WALLY_SCRIPT_HASH160 == 1
WALLY_SCRIPT_SHA256 == 2
WALLY_SCRIPT_AS_PUSH == 4
WALLY_SCRIPT_MULTISIG_SORTED == 8
EC_FLAG_ELEMENTS == 16
ALL_SCRIPT_HASH_FLAGS == {WALLY_SCRIPT_HASH160, WALLY_SCRIPT_SHA256}

VI_TAG_16 == 253
VI_TAG_32 == 254
VI_TAG_64 == 255
VI_MAX_8 == 252

(***************************************************************************)
(* Bounds of the model                                                      *)
(***************************************************************************)
\* how far around each boundary value the integer inputs are drawn
IntDelta == 1
\* how far around each boundary the payload lengths of pushes are drawn
PushDelta == 1
\* the most keys and signatures in a multisig input
MaxKeys == 3
MaxSigs == 2
\* how much more than the reported length the caller's second buffer may hold
MaxExtra == 1
MaxPieces == 3

Max(a, b) == IF a >= b THEN a ELSE b
Min(a, b) == IF a <= b THEN a ELSE b

Pow256(k) == CASE k = 0 -> 1 [] k = 1 -> 256 [] k = 2 -> 65536 [] k = 3 -> 16777216

(***************************************************************************)
(* uint64_t.  TLC's integers are 32 bits wide, so a 64-bit unsigned value   *)
(* is four 16-bit limbs, least significant first.                           *)
(***************************************************************************)
Limb == 256 * 256

U64(n) == <<n % Limb, n \div Limb, 0, 0>>

U64Le(a, b) ==
    \/ a[4] < b[4]
    \/ a[4] = b[4] /\ a[3] < b[3]
    \/ a[4] = b[4] /\ a[3] = b[3] /\ a[2] < b[2]
    \/ a[4] = b[4] /\ a[3] = b[3] /\ a[2] = b[2] /\ a[1] <= b[1]

U64Lt(a, b) == U64Le(a, b) /\ a # b

\* a + n for a small n >= 0, modulo 2^64 (size_t and uint64_t arithmetic wraps)
U64AddSmall(a, n) ==
    LET s1 == a[1] + n
        s2 == a[2] + (s1 \div Limb)
        s3 == a[3] + (s2 \div Limb)
        s4 == a[4] + (s3 \div Limb)
    IN  <<s1 % Limb, s2 % Limb, s3 % Limb, s4 % Limb>>

\* size_t is 32 or 64 bits wide, as the build has it
SizeBits == {32, 64}

\* a value below 2^64 stored to a size_t of size_bits bits
SizeT(v, size_bits) == IF size_bits = 32 THEN <<v[1], v[2], 0, 0>> ELSE v

\* byte k (0 = least significant) of a 64-bit value: (v >> 8k) & 0xff
U64Byte(v, k) == (v[(k \div 2) + 1] \div (IF k % 2 = 0 THEN 1 ELSE 256)) % 256

\* the b(n) terms of varint_from_bytes OR-ed together: bytes[1..n], little-endian
U64FromLeBytes(bytes) ==
    [k \in 1..4 |->
        (IF 2 * k - 1 <= Len(bytes) THEN bytes[2 * k - 1] ELSE 0)
        + 256 * (IF 2 * k <= Len(bytes) THEN bytes[2 * k] ELSE 0)]

USHRT_MAX == <<65535, 0, 0, 0>>
UINT_MAX == <<65535, 65535, 0, 0>>
VI_MAX_16 == USHRT_MAX
VI_MAX_32 == UINT_MAX

uint8_to_le_bytes(v) == <<U64Byte(v, 0)>>
uint16_to_le_bytes(v) == [k \in 1..2 |-> U64Byte(v, k - 1)]
uint32_to_le_bytes(v) == [k \in 1..4 |-> U64Byte(v, k - 1)]
uint64_to_le_bytes(v) == [k \in 1..8 |-> U64Byte(v, k - 1)]

(***************************************************************************)
(* varint                                                                   *)
(***************************************************************************)
varint_get_length(v) ==
    IF U64Le(v, U64(VI_MAX_8)) THEN 1
    ELSE IF U64Le(v, VI_MAX_16) THEN 1 + 2
    ELSE IF U64Le(v, VI_MAX_32) THEN 1 + 4
    ELSE 1 + 8

\* a faulty variant: the 16-bit form chosen up to 65536 (an off-by-one in the range test)
varint_to_bytes_offbyone(v) ==
    IF U64Le(v, U64(VI_MAX_8)) THEN uint8_to_le_bytes(v)
    ELSE IF U64Le(v, U64AddSmall(VI_MAX_16, 1)) THEN <<VI_TAG_16>> \o uint16_to_le_bytes(v)
    ELSE IF U64Le(v, VI_MAX_32) THEN <<VI_TAG_32>> \o uint32_to_le_bytes(v)
    ELSE <<VI_TAG_64>> \o uint64_to_le_bytes(v)

\* the bytes written to bytes_out; the return value is their number
varint_to_bytes(v) ==
    IF U64Le(v, U64(VI_MAX_8)) THEN uint8_to_le_bytes(v)
    ELSE IF U64Le(v, VI_MAX_16) THEN <<VI_TAG_16>> \o uint16_to_le_bytes(v)
    ELSE IF U64Le(v, VI_MAX_32) THEN <<VI_TAG_32>> \o uint32_to_le_bytes(v)
    ELSE <<VI_TAG_64>> \o uint64_to_le_bytes(v)

\* [v, size]; reads bytes[0] and the bytes the tag announces
varint_from_bytes(bytes) ==
    CASE bytes[1] = VI_TAG_16 -> [v |-> U64FromLeBytes(SubSeq(bytes, 2, 3)), size |-> 1 + 2]
      [] bytes[1] = VI_TAG_32 -> [v |-> U64FromLeBytes(SubSeq(bytes, 2, 5)), size |-> 1 + 4]
      [] bytes[1] = VI_TAG_64 -> [v |-> U64FromLeBytes(SubSeq(bytes, 2, 9)), size |-> 1 + 8]
      [] OTHER -> [v |-> U64(bytes[1]), size |-> 1]

(***************************************************************************)
(* script integers                                                          *)
(***************************************************************************)
Abs(x) == IF x < 0 THEN -x ELSE x

\* the while (v) loop: the little-endian bytes of the magnitude
RECURSIVE MagnitudeBytes(_)
MagnitudeBytes(v) == IF v = 0 THEN <<>> ELSE <<v % 256>> \o MagnitudeBytes(v \div 256)

scriptint_get_length(signed_v) ==
    LET m == MagnitudeBytes(Abs(signed_v))
        last == IF m = <<>> THEN 0 ELSE m[Len(m)]
    IN  Len(m) + (IF last >= 128 THEN 1 ELSE 0)

\* a faulty variant: the sign is forgotten when the extra byte is appended
scriptint_to_bytes_nosign(signed_v) ==
    LET m == MagnitudeBytes(Abs(signed_v))
        last == IF m = <<>> THEN 0 ELSE m[Len(m)]
    IN  IF last >= 128 THEN m \o <<0>>
        ELSE IF signed_v < 0 THEN [m EXCEPT ![Len(m)] = @ + 128]
        ELSE m

\* the bytes written to bytes_out; the return value is their number
scriptint_to_bytes(signed_v) ==
    LET m == MagnitudeBytes(Abs(signed_v))
        last == IF m = <<>> THEN 0 ELSE m[Len(m)]
    IN  IF last >= 128 THEN m \o <<IF signed_v < 0 THEN 128 ELSE 0>>
        ELSE IF signed_v < 0 THEN [m EXCEPT ![Len(m)] = @ + 128]
        ELSE m

\* a faulty variant: the sign bit is left in the magnitude of a negative number
scriptint_from_bytes_nomask(bytes, len) ==
    IF len < 1 \/ len <= bytes[1] \/ bytes[1] > 4
    THEN [ret |-> WALLY_EINVAL, value |-> 0]
    ELSE LET n == bytes[1]
             acc == [i \in 1..n |-> bytes[i + 1]]
             neg == bytes[n + 1] >= 128
             hi == (IF n >= 3 THEN acc[3] ELSE 0) + 256 * (IF n >= 4 THEN acc[4] % 128 ELSE 0)
             lo == (IF n >= 1 THEN acc[1] ELSE 0) + 256 * (IF n >= 2 THEN acc[2] ELSE 0)
             value == hi * Limb + lo
         IN  [ret |-> WALLY_OK, value |-> IF neg THEN -value ELSE value]

\* [ret, value]: bytes is the buffer (NULL modelled as <<>> with len 0 never read),
\* len the length the caller passes.  The 64-bit accumulator is kept as its
\* bytes; the sign bit is XOR-ed out of byte n before the value is negated.
scriptint_from_bytes(bytes, len) ==
    IF len < 1 \/ len <= bytes[1] \/ bytes[1] > 4
    THEN [ret |-> WALLY_EINVAL, value |-> 0]
    ELSE LET n == bytes[1]
             acc == [i \in 1..n |-> bytes[i + 1]]
             neg == bytes[n + 1] >= 128
             mag == IF neg
                    THEN [acc EXCEPT ![n] = IF @ >= 128 THEN @ - 128 ELSE @ + 128]
                    ELSE acc
             hi == (IF n >= 3 THEN mag[3] ELSE 0) + 256 * (IF n >= 4 THEN mag[4] ELSE 0)
             lo == (IF n >= 1 THEN mag[1] ELSE 0) + 256 * (IF n >= 2 THEN mag[2] ELSE 0)
             value == hi * Limb + lo
         IN  [ret |-> WALLY_OK, value |-> IF neg THEN -value ELSE value]

(***************************************************************************)
(* Buffers.  A const unsigned char * argument is a sequence of bytes, or    *)
(* NULL; C index i is At(bytes, i).  Reading past the sequence is an error  *)
(* of the evaluation, so every read the model makes is inside the buffer    *)
(* the caller handed in.                                                    *)
(***************************************************************************)
NULL == <<-1>>

At(bytes, i) == bytes[i + 1]

\* byte k (0 = least significant) of the size n: the cpu_to_le16/32 bytes
LeBytes(n, count) == [k \in 1..count |-> (n \div Pow256(k - 1)) % 256]

\* a size_t known to be below 2^31 as an integer
U64ToInt(v) == v[2] * Limb + v[1]

script_flags_ok(flags, extra_flags) ==
    ~(\/ flags \ (ALL_SCRIPT_HASH_FLAGS \cup extra_flags) # {}
      \/ flags \cap ALL_SCRIPT_HASH_FLAGS = ALL_SCRIPT_HASH_FLAGS)

\* a faulty variant: OP_0 counts whether or not zero is allowed
script_is_op_n_zero(opc, allow_zero) ==
    IF opc = OP_0 THEN [ok |-> TRUE, n |-> 0]
    ELSE IF opc >= OP_1 /\ opc <= OP_16 THEN [ok |-> TRUE, n |-> opc - OP_1 + 1]
    ELSE [ok |-> FALSE, n |-> 0]

\* [ok, n]; n is meaningful when ok
script_is_op_n(opc, allow_zero) ==
    IF allow_zero /\ opc = OP_0 THEN [ok |-> TRUE, n |-> 0]
    ELSE IF opc >= OP_1 /\ opc <= OP_16 THEN [ok |-> TRUE, n |-> opc - OP_1 + 1]
    ELSE [ok |-> FALSE, n |-> 0]

value_to_op_n(v) == IF v = 0 THEN OP_0 ELSE OP_1 + v - 1

is_pk_len(bytes_len) ==
    bytes_len = EC_PUBLIC_KEY_LEN \/ bytes_len = EC_PUBLIC_KEY_UNCOMPRESSED_LEN

\* a faulty variant: a 76-byte payload still takes the one-byte form
calc_push_opcode_size_76(n) ==
    IF n <= 76 THEN 1 ELSE IF n < 256 THEN 2 ELSE IF n < 65536 THEN 3 ELSE 5

calc_push_opcode_size(n) ==
    IF n < 76 THEN 1 ELSE IF n < 256 THEN 2 ELSE IF n < 65536 THEN 3 ELSE 5

script_get_push_size(n) == calc_push_opcode_size(n) + n

\* *size_out never stored
NotStored == <<>>

\* [ret, size_out]: bytes + off is the pointer passed, bytes_len the length
\* passed; size_out is the size_t left in *size_out (as a 64-bit value), and
\* opcode_len + *size_out is computed in size_t, so it wraps at 2^size_bits
get_push_size(bytes, off, bytes_len, get_opcode_size, size_bits) ==
    IF bytes = NULL \/ bytes_len = 0
    THEN [ret |-> WALLY_EINVAL, size_out |-> NotStored]
    ELSE LET b0 == At(bytes, off)
         IN  IF b0 >= 76 /\ b0 # OP_PUSHDATA1 /\ b0 # OP_PUSHDATA2 /\ b0 # OP_PUSHDATA4
             THEN [ret |-> WALLY_EINVAL, size_out |-> NotStored] \* Not a push
             ELSE LET opcode_len == CASE b0 < 76 -> 1
                                      [] b0 = OP_PUSHDATA1 -> 2
                                      [] b0 = OP_PUSHDATA2 -> 3
                                      [] b0 = OP_PUSHDATA4 -> 5
                  IN  IF bytes_len < opcode_len
                      THEN [ret |-> WALLY_EINVAL, size_out |-> NotStored]
                      ELSE LET size == IF opcode_len = 1 THEN U64(b0)
                                       ELSE U64FromLeBytes([k \in 1..(opcode_len - 1) |->
                                                               At(bytes, off + k)])
                           IN  IF U64Lt(U64(bytes_len),
                                    SizeT(U64AddSmall(size, opcode_len), size_bits))
                               THEN [ret |-> WALLY_EINVAL, size_out |-> size]
                               ELSE [ret |-> WALLY_OK,
                                     size_out |-> IF get_opcode_size THEN U64(opcode_len)
                                                  ELSE size]

script_get_push_size_from_bytes(bytes, off, bytes_len, size_bits) ==
    get_push_size(bytes, off, bytes_len, FALSE, size_bits)

script_get_push_opcode_size_from_bytes(bytes, off, bytes_len, size_bits) ==
    get_push_size(bytes, off, bytes_len, TRUE, size_bits)

(***************************************************************************)
(* The scriptPubkey classifier                                              *)
(***************************************************************************)
scriptpubkey_is_op_return(bytes, bytes_len) ==
    bytes_len # 0 /\ At(bytes, 0) = OP_RETURN

\* a faulty variant: the last opcode is not looked at
scriptpubkey_is_p2pkh_nochecksig(bytes, bytes_len) ==
    /\ bytes_len = WALLY_SCRIPTPUBKEY_P2PKH_LEN
    /\ At(bytes, 0) = OP_DUP /\ At(bytes, 1) = OP_HASH160
    /\ At(bytes, 2) = 20
    /\ At(bytes, 23) = OP_EQUALVERIFY

scriptpubkey_is_p2pkh(bytes, bytes_len) ==
    /\ bytes_len = WALLY_SCRIPTPUBKEY_P2PKH_LEN
    /\ At(bytes, 0) = OP_DUP /\ At(bytes, 1) = OP_HASH160
    /\ At(bytes, 2) = 20
    /\ At(bytes, 23) = OP_EQUALVERIFY
    /\ At(bytes, 24) = OP_CHECKSIG

scriptpubkey_is_p2sh(bytes, bytes_len) ==
    /\ bytes_len = WALLY_SCRIPTPUBKEY_P2SH_LEN
    /\ At(bytes, 0) = OP_HASH160
    /\ At(bytes, 1) = 20
    /\ At(bytes, 22) = OP_EQUAL

scriptpubkey_is_p2wpkh(bytes, bytes_len) ==
    /\ bytes_len = WALLY_SCRIPTPUBKEY_P2WPKH_LEN
    /\ At(bytes, 0) = OP_0
    /\ At(bytes, 1) = 20

scriptpubkey_is_p2wsh(bytes, bytes_len) ==
    /\ bytes_len = WALLY_SCRIPTPUBKEY_P2WSH_LEN
    /\ At(bytes, 0) = OP_0
    /\ At(bytes, 1) = 32

\* a faulty variant: the version opcode is not looked at
scriptpubkey_is_p2tr_anyversion(bytes, bytes_len) ==
    /\ bytes # NULL
    /\ bytes_len = WALLY_SCRIPTPUBKEY_P2TR_LEN
    /\ At(bytes, 1) = 32

scriptpubkey_is_p2tr(bytes, bytes_len) ==
    /\ bytes # NULL
    /\ bytes_len = WALLY_SCRIPTPUBKEY_P2TR_LEN
    /\ At(bytes, 0) = OP_1
    /\ At(bytes, 1) = 32

\* the for loop of scriptpubkey_is_multisig, from push i on
\* (an n_push of 65536 or more is no key length)
RECURSIVE multisig_pushes(_, _, _, _, _, _)
multisig_pushes(bytes, off, bytes_len, i, n_pushes, size_bits) ==
    IF i >= n_pushes THEN bytes_len = 2
    ELSE LET n_op == get_push_size(bytes, off, bytes_len, TRUE, size_bits)
             n_push == get_push_size(bytes, off, bytes_len, FALSE, size_bits)
         IN  IF \/ n_op.ret # WALLY_OK
                \/ n_push.ret # WALLY_OK
                \/ n_push.size_out[2] # 0
                \/ ~is_pk_len(U64ToInt(n_push.size_out))
                \/ bytes_len < U64ToInt(n_op.size_out) + U64ToInt(n_push.size_out) + 2
             THEN FALSE
             ELSE LET step == U64ToInt(n_op.size_out) + U64ToInt(n_push.size_out)
                  IN  multisig_pushes(bytes, off + step, bytes_len - step, i + 1,
                                      n_pushes, size_bits)

scriptpubkey_is_multisig(bytes, bytes_len, size_bits) ==
    LET min_1of1_len == 1 + 1 + 33 + 1 + 1
    IN  IF \/ bytes_len < min_1of1_len
           \/ ~script_is_op_n(At(bytes, 0), FALSE).ok
           \/ At(bytes, bytes_len - 1) # OP_CHECKMULTISIG
           \/ ~script_is_op_n(At(bytes, bytes_len - 2), FALSE).ok
        THEN FALSE
        ELSE multisig_pushes(bytes, 1, bytes_len - 1, 0,
                             script_is_op_n(At(bytes, bytes_len - 2), FALSE).n, size_bits)

\* the view bytes + off of a buffer, as scriptint_from_bytes is handed it
From(bytes, off) == SubSeq(bytes, off + 1, Len(bytes))

\* [ok, csv_blocks]
scriptpubkey_is_csv_2of2_then_1(bytes, bytes_len) ==
    LET min_len == 9 + 2 * (EC_PUBLIC_KEY_LEN + 1) + 2
        no == [ok |-> FALSE, csv_blocks |-> 0]
    IN  IF bytes_len < min_len \/ bytes_len > min_len + 2 THEN no
        ELSE IF \/ At(bytes, 0) # OP_DEPTH \/ At(bytes, 1) # OP_1SUB
                \/ At(bytes, 2) # OP_IF \/ At(bytes, 3) # EC_PUBLIC_KEY_LEN
                \/ At(bytes, EC_PUBLIC_KEY_LEN + 4) # OP_CHECKSIGVERIFY
                \/ At(bytes, EC_PUBLIC_KEY_LEN + 5) # OP_ELSE
        THEN no
        ELSE LET off1 == EC_PUBLIC_KEY_LEN + 6
                 len1 == bytes_len - (EC_PUBLIC_KEY_LEN + 6)
                 blocks == scriptint_from_bytes(From(bytes, off1), len1)
             IN  IF blocks.ret # WALLY_OK THEN no
                 ELSE IF blocks.value < 17 \/ blocks.value > 65535 THEN no
                 ELSE LET len2 == len1 - (At(bytes, off1) + 1)
                          off2 == off1 + At(bytes, off1) + 1
                      IN  IF len2 < 3 + (EC_PUBLIC_KEY_LEN + 1) + 1 THEN no
                          ELSE IF \/ At(bytes, off2) # OP_CHECKSEQUENCEVERIFY
                                  \/ At(bytes, off2 + 1) # OP_DROP
                                  \/ At(bytes, off2 + 2) # OP_ENDIF
                                  \/ At(bytes, off2 + 3) # EC_PUBLIC_KEY_LEN
                                  \/ At(bytes, off2 + EC_PUBLIC_KEY_LEN + 4) # OP_CHECKSIG
                          THEN no
                          ELSE [ok |-> TRUE, csv_blocks |-> blocks.value]

\* [ok, csv_blocks]
scriptpubkey_is_csv_2of2_then_1_opt(bytes, bytes_len) ==
    LET min_len == 6 + 2 * (EC_PUBLIC_KEY_LEN + 1) + 2
        no == [ok |-> FALSE, csv_blocks |-> 0]
    IN  IF bytes_len < min_len \/ bytes_len > min_len + 2 THEN no
        ELSE IF \/ At(bytes, 0) # EC_PUBLIC_KEY_LEN
                \/ At(bytes, EC_PUBLIC_KEY_LEN + 1) # OP_CHECKSIGVERIFY
                \/ At(bytes, EC_PUBLIC_KEY_LEN + 2) # EC_PUBLIC_KEY_LEN
        THEN no
        ELSE LET off1 == EC_PUBLIC_KEY_LEN * 2 + 3
             IN  IF \/ At(bytes, off1) # OP_CHECKSIG
                    \/ At(bytes, off1 + 1) # OP_IFDUP
                    \/ At(bytes, off1 + 2) # OP_NOTIF
                 THEN no
                 ELSE LET off2 == off1 + 3
                          len2 == bytes_len - (EC_PUBLIC_KEY_LEN * 2 + 3) - 3
                          blocks == scriptint_from_bytes(From(bytes, off2), len2)
                      IN  IF blocks.ret # WALLY_OK THEN no
                          ELSE IF blocks.value < 17 \/ blocks.value > 65535 THEN no
                          ELSE LET len3 == len2 - (At(bytes, off2) + 1)
                                   off3 == off2 + At(bytes, off2) + 1
                               IN  IF \/ len3 # 2
                                      \/ At(bytes, off3) # OP_CHECKSEQUENCEVERIFY
                                      \/ At(bytes, off3 + 1) # OP_ENDIF
                                   THEN no
                                   ELSE [ok |-> TRUE, csv_blocks |-> blocks.value]

\* a faulty variant: the optimised template is not tried
wally_scriptpubkey_csv_blocks_from_csv_2of2_then_1_noopt(bytes, bytes_len, value_out_null) ==
    IF bytes = NULL \/ bytes_len = 0 \/ value_out_null
    THEN [ret |-> WALLY_EINVAL, value_out |-> IF value_out_null THEN -1 ELSE 0]
    ELSE IF scriptpubkey_is_csv_2of2_then_1(bytes, bytes_len).ok
    THEN [ret |-> WALLY_OK,
          value_out |-> scriptpubkey_is_csv_2of2_then_1(bytes, bytes_len).csv_blocks]
    ELSE [ret |-> WALLY_EINVAL, value_out |-> 0]

\* [ret, value_out]; with value_out NULL nothing is stored, reported as -1
wally_scriptpubkey_csv_blocks_from_csv_2of2_then_1(bytes, bytes_len, value_out_null) ==
    IF bytes = NULL \/ bytes_len = 0 \/ value_out_null
    THEN [ret |-> WALLY_EINVAL, value_out |-> IF value_out_null THEN -1 ELSE 0]
    ELSE IF scriptpubkey_is_csv_2of2_then_1(bytes, bytes_len).ok
    THEN [ret |-> WALLY_OK,
          value_out |-> scriptpubkey_is_csv_2of2_then_1(bytes, bytes_len).csv_blocks]
    ELSE IF scriptpubkey_is_csv_2of2_then_1_opt(bytes, bytes_len).ok
    THEN [ret |-> WALLY_OK,
          value_out |-> scriptpubkey_is_csv_2of2_then_1_opt(bytes, bytes_len).csv_blocks]
    ELSE [ret |-> WALLY_EINVAL, value_out |-> 0]

\* the tag wally_scriptpubkey_get_type stores once its arguments are accepted
scriptpubkey_type(bytes, bytes_len, size_bits) ==
    IF scriptpubkey_is_op_return(bytes, bytes_len)
    THEN WALLY_SCRIPT_TYPE_OP_RETURN
    ELSE IF scriptpubkey_is_multisig(bytes, bytes_len, size_bits)
    THEN WALLY_SCRIPT_TYPE_MULTISIG
    ELSE IF scriptpubkey_is_csv_2of2_then_1(bytes, bytes_len).ok
    THEN WALLY_SCRIPT_TYPE_CSV2OF2_1
    ELSE IF scriptpubkey_is_csv_2of2_then_1_opt(bytes, bytes_len).ok
    THEN WALLY_SCRIPT_TYPE_CSV2OF2_1_OPT
    ELSE IF bytes_len = WALLY_SCRIPTPUBKEY_P2PKH_LEN
            /\ scriptpubkey_is_p2pkh(bytes, bytes_len)
    THEN WALLY_SCRIPT_TYPE_P2PKH
    ELSE IF bytes_len = WALLY_SCRIPTPUBKEY_P2SH_LEN
            /\ scriptpubkey_is_p2sh(bytes, bytes_len)
    THEN WALLY_SCRIPT_TYPE_P2SH
    ELSE IF bytes_len = WALLY_SCRIPTPUBKEY_P2WPKH_LEN
            /\ scriptpubkey_is_p2wpkh(bytes, bytes_len)
    THEN WALLY_SCRIPT_TYPE_P2WPKH
    ELSE IF bytes_len = WALLY_SCRIPTPUBKEY_P2WSH_LEN
            /\ scriptpubkey_is_p2wsh(bytes, bytes_len)
    THEN WALLY_SCRIPT_TYPE_P2WSH
    ELSE IF bytes_len = WALLY_SCRIPTPUBKEY_P2WSH_LEN
            /\ scriptpubkey_is_p2tr(bytes, bytes_len)
    THEN WALLY_SCRIPT_TYPE_P2TR
    ELSE WALLY_SCRIPT_TYPE_UNKNOWN

\* a faulty variant: a buffer that matches nothing is refused
wally_scriptpubkey_get_type_strict(bytes, bytes_len, written_null, size_bits) ==
    IF bytes = NULL \/ bytes_len = 0 \/ written_null
    THEN [ret |-> WALLY_EINVAL,
          written |-> IF written_null THEN -1 ELSE WALLY_SCRIPT_TYPE_UNKNOWN]
    ELSE [ret |-> IF scriptpubkey_type(bytes, bytes_len, size_bits) = WALLY_SCRIPT_TYPE_UNKNOWN
                  THEN WALLY_EINVAL ELSE WALLY_OK,
          written |-> scriptpubkey_type(bytes, bytes_len, size_bits)]

\* [ret, written]; with written NULL nothing is stored, reported as -1
wally_scriptpubkey_get_type(bytes, bytes_len, written_null, size_bits) ==
    IF bytes = NULL \/ bytes_len = 0 \/ written_null
    THEN [ret |-> WALLY_EINVAL,
          written |-> IF written_null THEN -1 ELSE WALLY_SCRIPT_TYPE_UNKNOWN]
    ELSE [ret |-> WALLY_OK, written |-> scriptpubkey_type(bytes, bytes_len, size_bits)]

(***************************************************************************)
(* Output buffers.  bytes_out and written are taken to be non-NULL.  The    *)
(* caller's buffer is mem, len bytes that hold 255 before the call; wmax is *)
(* one more than the highest offset the call stored to (0: nothing was      *)
(* stored), whether or not that offset is inside the buffer.  A builder     *)
(* returns [ret, written, out].                                             *)
(***************************************************************************)
FreshBuf(len) == [mem |-> [i \in 1..len |-> 255], wmax |-> 0]

\* memcpy(bytes_out + off, data, Len(data)), or single stores
Store(buf, off, data) ==
    IF Len(data) = 0 THEN buf
    ELSE LET n == Len(buf.mem)
         IN  [mem |-> SubSeq(buf.mem, 1, Min(off, n))
                      \o SubSeq(data, 1, Min(Len(data), n - off))
                      \o SubSeq(buf.mem, off + Len(data) + 1, n),
              wmax |-> Max(buf.wmax, off + Len(data))]

Result(ret, written, out) == [ret |-> ret, written |-> written, out |-> out]

\* the hash primitives are collaborators: a digest of the right length that
\* depends on the input
wally_hash160(bytes, bytes_len) ==
    [i \in 1..HASH160_LEN |-> (bytes_len + 7 * i + (IF bytes_len > 0 THEN bytes[1] ELSE 0)) % 256]

wally_sha256(bytes, bytes_len) ==
    [i \in 1..SHA256_LEN |-> (bytes_len + 11 * i + (IF bytes_len > 0 THEN bytes[1] ELSE 0)) % 256]

\* the opcode bytes of a push of n bytes
push_header(n) ==
    IF n < 76 THEN <<n>>
    ELSE IF n < 256 THEN <<OP_PUSHDATA1, n>>
    ELSE IF n < 65536 THEN <<OP_PUSHDATA2>> \o LeBytes(n, 2)
    ELSE <<OP_PUSHDATA4>> \o LeBytes(n, 4)

\* a faulty variant: a zero-length buffer is answered with the required size
wally_script_push_from_bytes_probe0(bytes, bytes_len, flags, hash_ret, buf, off, len) ==
    IF (bytes_len # 0 /\ bytes = NULL) \/ ~script_flags_ok(flags, {})
    THEN Result(WALLY_EINVAL, 0, buf)
    ELSE LET ret == IF flags \cap ALL_SCRIPT_HASH_FLAGS # {} THEN hash_ret ELSE WALLY_OK
             data == IF WALLY_SCRIPT_HASH160 \in flags THEN wally_hash160(bytes, bytes_len)
                     ELSE IF WALLY_SCRIPT_SHA256 \in flags THEN wally_sha256(bytes, bytes_len)
                     ELSE IF bytes_len = 0 THEN <<>> ELSE SubSeq(bytes, 1, bytes_len)
             n == Len(data)
             opcode_len == calc_push_opcode_size(n)
         IN  IF ret # WALLY_OK THEN Result(ret, 0, buf)
             ELSE IF len < n + opcode_len THEN Result(WALLY_OK, n + opcode_len, buf)
             ELSE Result(WALLY_OK, n + opcode_len,
                         Store(Store(buf, off, push_header(n)), off + opcode_len, data))

\* bytes_out is buf's start + off, len the capacity passed; hash_ret is what
\* the hash primitive returns when a hash flag asks for it
wally_script_push_from_bytes(bytes, bytes_len, flags, hash_ret, buf, off, len) ==
    IF (bytes_len # 0 /\ bytes = NULL) \/ ~script_flags_ok(flags, {}) \/ len = 0
    THEN Result(WALLY_EINVAL, 0, buf)
    ELSE LET ret == IF flags \cap ALL_SCRIPT_HASH_FLAGS # {} THEN hash_ret ELSE WALLY_OK
             data == IF WALLY_SCRIPT_HASH160 \in flags THEN wally_hash160(bytes, bytes_len)
                     ELSE IF WALLY_SCRIPT_SHA256 \in flags THEN wally_sha256(bytes, bytes_len)
                     ELSE IF bytes_len = 0 THEN <<>> ELSE SubSeq(bytes, 1, bytes_len)
             n == Len(data)
             opcode_len == calc_push_opcode_size(n)
         IN  IF ret # WALLY_OK THEN Result(ret, 0, buf)
             ELSE IF len < n + opcode_len THEN Result(WALLY_OK, n + opcode_len, buf)
             ELSE Result(WALLY_OK, n + opcode_len,
                         Store(Store(buf, off, push_header(n)), off + opcode_len, data))

\* a local array of n bytes that no store has reached: each cell holds -1,
\* standing for whatever the stack held
Local(n) == [i \in 1..n |-> -1]

\* what wally_clear(buff + off, n) leaves in a local array
Zeroed(buff, off, n) ==
    [i \in 1..Len(buff) |-> IF i > off /\ i <= off + n THEN 0 ELSE buff[i]]

\* unsigned char buff[SHA256_LEN] of wally_script_push_from_bytes at its return
push_from_bytes_buff(bytes, bytes_len, flags, hash_ret, len) ==
    IF (bytes_len # 0 /\ bytes = NULL) \/ ~script_flags_ok(flags, {}) \/ len = 0
    THEN Local(SHA256_LEN)
    ELSE LET ret == IF flags \cap ALL_SCRIPT_HASH_FLAGS # {} THEN hash_ret ELSE WALLY_OK
             buff == IF WALLY_SCRIPT_HASH160 \in flags
                     THEN wally_hash160(bytes, bytes_len)
                          \o SubSeq(Local(SHA256_LEN), HASH160_LEN + 1, SHA256_LEN)
                     ELSE IF WALLY_SCRIPT_SHA256 \in flags THEN wally_sha256(bytes, bytes_len)
                     ELSE Local(SHA256_LEN)
             n == IF WALLY_SCRIPT_HASH160 \in flags THEN HASH160_LEN
                  ELSE IF WALLY_SCRIPT_SHA256 \in flags THEN SHA256_LEN
                  ELSE bytes_len
         IN  IF ret # WALLY_OK THEN Zeroed(buff, 0, SHA256_LEN)
             ELSE IF len < n + calc_push_opcode_size(n) THEN buff
             ELSE Zeroed(buff, 0, SHA256_LEN)

wally_scriptpubkey_p2pkh_from_bytes(bytes, bytes_len, flags, hash_ret, buf, len) ==
    IF \/ bytes = NULL \/ bytes_len = 0 \/ ~script_flags_ok(flags, {})
       \/ WALLY_SCRIPT_SHA256 \in flags \/ len = 0
    THEN Result(WALLY_EINVAL, 0, buf)
    ELSE IF len < WALLY_SCRIPTPUBKEY_P2PKH_LEN
    THEN Result(WALLY_OK, WALLY_SCRIPTPUBKEY_P2PKH_LEN, buf)
    ELSE IF \/ WALLY_SCRIPT_HASH160 \in flags /\ bytes_len # EC_PUBLIC_KEY_LEN
                                             /\ bytes_len # EC_PUBLIC_KEY_UNCOMPRESSED_LEN
            \/ WALLY_SCRIPT_HASH160 \notin flags /\ bytes_len # HASH160_LEN
    THEN Result(WALLY_EINVAL, 0, buf)
    ELSE LET r == wally_script_push_from_bytes(bytes, bytes_len, flags, hash_ret,
                      Store(Store(buf, 0, <<OP_DUP>>), 1, <<OP_HASH160>>), 2, len - 4)
         IN  IF r.ret = WALLY_OK
             THEN Result(WALLY_OK, WALLY_SCRIPTPUBKEY_P2PKH_LEN,
                         Store(Store(r.out, WALLY_SCRIPTPUBKEY_P2PKH_LEN - 2, <<OP_EQUALVERIFY>>),
                               WALLY_SCRIPTPUBKEY_P2PKH_LEN - 1, <<OP_CHECKSIG>>))
             ELSE r

\* wally_clear(p, n)
Clear(buf, off, n) == Store(buf, off, [i \in 1..n |-> 0])

wally_scriptsig_p2pkh_from_der(pub_key, pub_key_len, sig, sig_len, buf, len) ==
    IF \/ pub_key = NULL \/ ~is_pk_len(pub_key_len)
       \/ sig = NULL \/ sig_len = 0 \/ sig_len > EC_SIGNATURE_DER_MAX_LEN + 1
    THEN Result(WALLY_EINVAL, 0, buf)
    ELSE IF len < script_get_push_size(pub_key_len) + script_get_push_size(sig_len)
    THEN Result(WALLY_EINVAL, 0, buf)
    ELSE LET r1 == wally_script_push_from_bytes(sig, sig_len, {}, WALLY_OK, buf, 0, len)
         IN  IF r1.ret # WALLY_OK THEN r1
             ELSE LET n == r1.written
                      r2 == wally_script_push_from_bytes(pub_key, pub_key_len, {}, WALLY_OK,
                                                         r1.out, n, len - n)
                  IN  IF r2.ret = WALLY_OK THEN Result(WALLY_OK, r2.written + n, r2.out)
                      ELSE Result(r2.ret, r2.written, Clear(r2.out, 0, n))

\* the DER encoder is a collaborator: it refuses anything but a 64-byte
\* compact signature and otherwise yields 70 to 72 bytes
wally_ec_sig_to_der(sig, sig_len) ==
    IF sig = NULL \/ sig_len # EC_SIGNATURE_LEN
    THEN [ret |-> WALLY_EINVAL, der |-> <<>>]
    ELSE [ret |-> WALLY_OK,
          der |-> <<48>> \o [i \in 1..(69 + (sig[1] % 3)) |-> (sig[1] + i) % 256]]

wally_scriptsig_p2pkh_from_sig(pub_key, pub_key_len, sig, sig_len, sighash, buf, len) ==
    IF sighash >= 256 THEN Result(WALLY_EINVAL, 0, buf)
    ELSE LET d == wally_ec_sig_to_der(sig, sig_len)
         IN  IF d.ret # WALLY_OK THEN Result(d.ret, 0, buf)
             ELSE wally_scriptsig_p2pkh_from_der(pub_key, pub_key_len,
                      d.der \o <<sighash % 256>>, Len(d.der) + 1, buf, len)

\* unsigned char buff[EC_SIGNATURE_DER_MAX_LEN + 1] of
\* wally_scriptsig_p2pkh_from_sig at its return
scriptsig_p2pkh_from_sig_buff(sig, sig_len, sighash) ==
    IF sighash >= 256 THEN Local(EC_SIGNATURE_DER_MAX_LEN + 1)
    ELSE LET d == wally_ec_sig_to_der(sig, sig_len)
             der_len == Len(d.der) + 1
         IN  IF d.ret # WALLY_OK THEN Local(EC_SIGNATURE_DER_MAX_LEN + 1)
             ELSE Zeroed(d.der \o <<sighash % 256>>
                         \o SubSeq(Local(EC_SIGNATURE_DER_MAX_LEN + 1), der_len + 1,
                                   EC_SIGNATURE_DER_MAX_LEN + 1),
                         0, der_len)

wally_scriptpubkey_op_return_from_bytes(bytes, bytes_len, flags, buf, len) ==
    IF bytes_len > WALLY_MAX_OP_RETURN_LEN \/ flags # {} \/ len = 0
    THEN Result(WALLY_EINVAL, 0, buf)
    ELSE LET r == wally_script_push_from_bytes(bytes, bytes_len, flags, WALLY_OK,
                                               buf, 1, len - 1)
         IN  IF r.ret = WALLY_OK
             THEN Result(WALLY_OK, r.written + 1, Store(r.out, 0, <<OP_RETURN>>))
             ELSE r

\* a faulty variant: the closing OP_EQUAL is not stored
wally_scriptpubkey_p2sh_from_bytes_noequal(bytes, bytes_len, flags, hash_ret, buf, len) ==
    IF bytes = NULL \/ bytes_len = 0 \/ flags \ {WALLY_SCRIPT_HASH160} # {} \/ len = 0
    THEN Result(WALLY_EINVAL, 0, buf)
    ELSE IF WALLY_SCRIPT_HASH160 \notin flags /\ bytes_len # HASH160_LEN
    THEN Result(WALLY_EINVAL, 0, buf)
    ELSE IF len < WALLY_SCRIPTPUBKEY_P2SH_LEN
    THEN Result(WALLY_OK, WALLY_SCRIPTPUBKEY_P2SH_LEN, buf)
    ELSE LET r == wally_script_push_from_bytes(bytes, bytes_len, flags, hash_ret,
                                               Store(buf, 0, <<OP_HASH160>>), 1, len - 2)
         IN  IF r.ret = WALLY_OK
             THEN Result(WALLY_OK, WALLY_SCRIPTPUBKEY_P2SH_LEN, r.out)
             ELSE r

wally_scriptpubkey_p2sh_from_bytes(bytes, bytes_len, flags, hash_ret, buf, len) ==
    IF bytes = NULL \/ bytes_len = 0 \/ flags \ {WALLY_SCRIPT_HASH160} # {} \/ len = 0
    THEN Result(WALLY_EINVAL, 0, buf)
    ELSE IF WALLY_SCRIPT_HASH160 \notin flags /\ bytes_len # HASH160_LEN
    THEN Result(WALLY_EINVAL, 0, buf)
    ELSE IF len < WALLY_SCRIPTPUBKEY_P2SH_LEN
    THEN Result(WALLY_OK, WALLY_SCRIPTPUBKEY_P2SH_LEN, buf)
    ELSE LET r == wally_script_push_from_bytes(bytes, bytes_len, flags, hash_ret,
                                               Store(buf, 0, <<OP_HASH160>>), 1, len - 2)
         IN  IF r.ret = WALLY_OK
             THEN Result(WALLY_OK, WALLY_SCRIPTPUBKEY_P2SH_LEN,
                         Store(r.out, WALLY_SCRIPTPUBKEY_P2SH_LEN - 1, <<OP_EQUAL>>))
             ELSE r

\* memcmp(a, b, n)
memcmp(a, b, n) ==
    LET d == {i \in 1..n : a[i] # b[i]}
    IN  IF d = {} THEN 0
        ELSE LET k == CHOOSE i \in d : \A j \in d : i <= j IN a[k] - b[k]

\* a faulty variant: only the parity byte is compared
pubkey_compare_prefix(a, b) == memcmp(a, b, 1)

pubkey_compare(a, b) == memcmp(a, b, EC_PUBLIC_KEY_LEN)

\* qsort(pubkey_bytes, n_pubkeys, EC_PUBLIC_KEY_LEN, pubkey_compare): the keys
\* in ascending pubkey_compare order (keys that compare equal are the same bytes)
RECURSIVE qsort_insert(_, _)
qsort_insert(sorted, key) ==
    IF sorted = <<>> THEN <<key>>
    ELSE IF pubkey_compare(key, Head(sorted)) <= 0 THEN <<key>> \o sorted
    ELSE <<Head(sorted)>> \o qsort_insert(Tail(sorted), key)

RECURSIVE qsort(_)
qsort(keys) ==
    IF keys = <<>> THEN <<>>
    ELSE qsort_insert(qsort(Tail(keys)), Head(keys))

\* element i (from 0) of an array of size-byte items
Item(bytes, i, size) == SubSeq(bytes, i * size + 1, (i + 1) * size)

RECURSIVE Concat(_)
Concat(seqs) == IF seqs = <<>> THEN <<>> ELSE Head(seqs) \o Concat(Tail(seqs))

wally_scriptpubkey_multisig_from_bytes(bytes, bytes_len, threshold, flags, buf, len) ==
    LET n_pubkeys == bytes_len \div EC_PUBLIC_KEY_LEN
        script_len == 3 + (n_pubkeys * (EC_PUBLIC_KEY_LEN + 1))
    IN  IF \/ bytes = NULL \/ bytes_len = 0 \/ bytes_len % EC_PUBLIC_KEY_LEN # 0
           \/ n_pubkeys < 1 \/ n_pubkeys > 15 \/ threshold < 1 \/ threshold > 15
           \/ threshold > n_pubkeys \/ flags \ {WALLY_SCRIPT_MULTISIG_SORTED} # {}
           \/ len = 0
        THEN Result(WALLY_EINVAL, 0, buf)
        ELSE IF len < script_len THEN Result(WALLY_OK, script_len, buf)
        ELSE LET keys == [i \in 1..n_pubkeys |-> Item(bytes, i - 1, EC_PUBLIC_KEY_LEN)]
                 pubkey_bytes == IF WALLY_SCRIPT_MULTISIG_SORTED \in flags
                                 THEN qsort(keys) ELSE keys
                 script == <<value_to_op_n(threshold)>>
                           \o Concat([i \in 1..n_pubkeys |->
                                        <<EC_PUBLIC_KEY_LEN>> \o pubkey_bytes[i]])
                           \o <<value_to_op_n(n_pubkeys), OP_CHECKMULTISIG>>
             IN  Result(WALLY_OK, script_len, Store(buf, 0, script))

\* the loop that DER-encodes the signatures: [ret, ders], ders the encoded
\* signatures with their sighash byte, up to the first failure
RECURSIVE multisig_der_loop(_, _, _, _)
multisig_der_loop(bytes, sighash, i, n_sigs) ==
    IF i >= n_sigs THEN [ret |-> WALLY_OK, ders |-> <<>>]
    ELSE IF sighash[i + 1] >= 256 THEN [ret |-> WALLY_EINVAL, ders |-> <<>>]
    ELSE LET d == wally_ec_sig_to_der(Item(bytes, i, EC_SIGNATURE_LEN), EC_SIGNATURE_LEN)
         IN  IF d.ret # WALLY_OK THEN [ret |-> d.ret, ders |-> <<>>]
             ELSE LET rest == multisig_der_loop(bytes, sighash, i + 1, n_sigs)
                  IN  [ret |-> rest.ret,
                       ders |-> <<d.der \o <<sighash[i + 1] % 256>>>> \o rest.ders]

\* the loop that pushes the signatures: [ret, out, off, len]
RECURSIVE multisig_push_loop(_, _, _, _, _)
multisig_push_loop(ders, i, buf, off, len) ==
    IF i > Len(ders) THEN [ret |-> WALLY_OK, out |-> buf, off |-> off, len |-> len]
    ELSE LET r == wally_script_push_from_bytes(ders[i], Len(ders[i]), {}, WALLY_OK,
                                               buf, off, len)
         IN  IF r.ret # WALLY_OK
             THEN [ret |-> r.ret, out |-> r.out, off |-> off, len |-> len]
             ELSE multisig_push_loop(ders, i + 1, r.out, off + r.written, len - r.written)

RECURSIVE SumPushSizes(_)
SumPushSizes(ders) ==
    IF ders = <<>> THEN 0
    ELSE script_get_push_size(Len(Head(ders))) + SumPushSizes(Tail(ders))

wally_scriptsig_multisig_from_bytes(script, script_len, bytes, bytes_len, sighash, sighash_len, flags, buf, len) ==
    LET n_sigs == bytes_len \div EC_SIGNATURE_LEN
    IN  IF \/ script = NULL \/ script_len = 0 \/ bytes = NULL \/ bytes_len = 0
           \/ bytes_len % EC_SIGNATURE_LEN # 0 \/ n_sigs < 1 \/ n_sigs > 15
           \/ sighash = NULL \/ sighash_len # n_sigs \/ flags # {}
        THEN Result(WALLY_EINVAL, 0, buf)
        ELSE LET d == multisig_der_loop(bytes, sighash, 0, n_sigs)
                 required == SumPushSizes(d.ders) + 1 + script_get_push_size(script_len)
             IN  IF d.ret # WALLY_OK THEN Result(d.ret, 0, buf)
                 ELSE IF len < required THEN Result(WALLY_OK, required, buf)
                 ELSE LET p == multisig_push_loop(d.ders, 1, Store(buf, 0, <<OP_0>>),
                                                  1, len - 1)
                          r == wally_script_push_from_bytes(script, script_len, {},
                                                            WALLY_OK, p.out, p.off, p.len)
                      IN  IF p.ret # WALLY_OK THEN Result(p.ret, 0, p.out)
                          ELSE IF r.ret # WALLY_OK THEN Result(r.ret, 0, r.out)
                          ELSE IF p.len < r.written THEN Result(WALLY_ERROR, 0, r.out)
                          ELSE Result(WALLY_OK, required, r.out)

\* der_buff after the encoding loop: signature i sits at i * DER_AND_HASH_MAX_LEN
RECURSIVE multisig_der_buff_loop(_, _, _)
multisig_der_buff_loop(ders, i, der_buff) ==
    IF i > Len(ders) THEN der_buff
    ELSE multisig_der_buff_loop(ders, i + 1,
             SubSeq(der_buff, 1, (i - 1) * DER_AND_HASH_MAX_LEN) \o ders[i]
             \o SubSeq(der_buff, (i - 1) * DER_AND_HASH_MAX_LEN + Len(ders[i]) + 1,
                       Len(der_buff)))

\* unsigned char der_buff[15 * DER_AND_HASH_MAX_LEN] of
\* wally_scriptsig_multisig_from_bytes at its return
scriptsig_multisig_der_buff(script, script_len, bytes, bytes_len, sighash, sighash_len, flags, buf, len) ==
    LET n_sigs == bytes_len \div EC_SIGNATURE_LEN
        r == wally_scriptsig_multisig_from_bytes(script, script_len, bytes, bytes_len,
                                                 sighash, sighash_len, flags, buf, len)
    IN  IF \/ script = NULL \/ script_len = 0 \/ bytes = NULL \/ bytes_len = 0
           \/ bytes_len % EC_SIGNATURE_LEN # 0 \/ n_sigs < 1 \/ n_sigs > 15
           \/ sighash = NULL \/ sighash_len # n_sigs \/ flags # {}
        THEN Local(15 * DER_AND_HASH_MAX_LEN)
        ELSE LET d == multisig_der_loop(bytes, sighash, 0, n_sigs)
                 der_buff == multisig_der_buff_loop(d.ders, 1, Local(15 * DER_AND_HASH_MAX_LEN))
             IN  IF r.ret = WALLY_ERROR THEN der_buff
                 ELSE Zeroed(der_buff, 0, 15 * DER_AND_HASH_MAX_LEN)

wally_scriptpubkey_csv_2of2_then_1_from_bytes(bytes, bytes_len, csv_blocks, flags, buf, len) ==
    LET csv_len == scriptint_get_length(csv_blocks)
        script_len == 2 * (EC_PUBLIC_KEY_LEN + 1) + 9 + 1 + csv_len
    IN  IF \/ bytes = NULL \/ bytes_len # 2 * EC_PUBLIC_KEY_LEN
           \/ csv_blocks < 17 \/ csv_blocks > 65535 \/ flags # {}
        THEN Result(WALLY_EINVAL, 0, buf)
        ELSE IF len < script_len THEN Result(WALLY_OK, script_len, buf)
        ELSE Result(WALLY_OK, script_len,
                 Store(buf, 0,
                       <<OP_DEPTH, OP_1SUB, OP_IF, EC_PUBLIC_KEY_LEN>>
                       \o Item(bytes, 0, EC_PUBLIC_KEY_LEN)
                       \o <<OP_CHECKSIGVERIFY, OP_ELSE, csv_len % 256>>
                       \o scriptint_to_bytes(csv_blocks)
                       \o <<OP_CHECKSEQUENCEVERIFY, OP_DROP, OP_ENDIF, EC_PUBLIC_KEY_LEN>>
                       \o Item(bytes, 1, EC_PUBLIC_KEY_LEN)
                       \o <<OP_CHECKSIG>>))

wally_scriptpubkey_csv_2of2_then_1_from_bytes_opt(bytes, bytes_len, csv_blocks, flags, buf, len) ==
    LET csv_len == scriptint_get_length(csv_blocks)
        script_len == 2 * (EC_PUBLIC_KEY_LEN + 1) + 6 + 1 + csv_len
    IN  IF \/ bytes = NULL \/ bytes_len # 2 * EC_PUBLIC_KEY_LEN
           \/ csv_blocks < 17 \/ csv_blocks > 65535 \/ flags # {}
        THEN Result(WALLY_EINVAL, 0, buf)
        ELSE IF len < script_len THEN Result(WALLY_OK, script_len, buf)
        ELSE Result(WALLY_OK, script_len,
                 Store(buf, 0,
                       <<EC_PUBLIC_KEY_LEN>>
                       \o Item(bytes, 1, EC_PUBLIC_KEY_LEN)
                       \o <<OP_CHECKSIGVERIFY, EC_PUBLIC_KEY_LEN>>
                       \o Item(bytes, 0, EC_PUBLIC_KEY_LEN)
                       \o <<OP_CHECKSIG, OP_IFDUP, OP_NOTIF, csv_len % 256>>
                       \o scriptint_to_bytes(csv_blocks)
                       \o <<OP_CHECKSEQUENCEVERIFY, OP_ENDIF>>))

\* a faulty variant: a version 0 program may be 2 to 40 bytes long
wally_witness_program_from_bytes_and_version_anylen(bytes, bytes_len, version, flags, hash_ret, buf, len) ==
    LET v1plus_max_size == WALLY_WITNESSSCRIPT_MAX_LEN - 2
        as_push == WALLY_SCRIPT_AS_PUSH \in flags
    IN  IF \/ (bytes_len # 0 /\ bytes = NULL) \/ version > 16
           \/ ~script_flags_ok(flags, {WALLY_SCRIPT_AS_PUSH}) \/ len = 0
        THEN Result(WALLY_EINVAL, 0, buf)
        ELSE IF flags \cap ALL_SCRIPT_HASH_FLAGS # {} /\ bytes_len = 0
        THEN Result(WALLY_EINVAL, 0, buf)
        ELSE IF /\ flags \cap ALL_SCRIPT_HASH_FLAGS = {}
                /\ (bytes_len < 2 \/ bytes_len > v1plus_max_size)
        THEN Result(WALLY_EINVAL, 0, buf)
        ELSE IF as_push /\ len < 2 THEN Result(WALLY_EINVAL, 0, buf)
        ELSE LET off == IF as_push THEN 1 ELSE 0
                 len1 == IF as_push THEN len - 1 ELSE len
                 r == wally_script_push_from_bytes(bytes, bytes_len,
                          flags \ {WALLY_SCRIPT_AS_PUSH}, hash_ret,
                          Store(buf, off, <<value_to_op_n(version)>>), off + 1, len1 - 1)
             IN  IF r.ret # WALLY_OK THEN r
                 ELSE IF as_push
                 THEN Result(WALLY_OK, r.written + 2,
                             Store(r.out, 0, <<(r.written + 1) % 256>>))
                 ELSE Result(WALLY_OK, r.written + 1, r.out)

wally_witness_program_from_bytes_and_version(bytes, bytes_len, version, flags, hash_ret, buf, len) ==
    LET v1plus_max_size == WALLY_WITNESSSCRIPT_MAX_LEN - 2
        as_push == WALLY_SCRIPT_AS_PUSH \in flags
    IN  IF \/ (bytes_len # 0 /\ bytes = NULL) \/ version > 16
           \/ ~script_flags_ok(flags, {WALLY_SCRIPT_AS_PUSH}) \/ len = 0
        THEN Result(WALLY_EINVAL, 0, buf)
        ELSE IF flags \cap ALL_SCRIPT_HASH_FLAGS # {} /\ bytes_len = 0
        THEN Result(WALLY_EINVAL, 0, buf)
        ELSE IF /\ flags \cap ALL_SCRIPT_HASH_FLAGS = {}
                /\ version = 0 /\ bytes_len # HASH160_LEN /\ bytes_len # SHA256_LEN
        THEN Result(WALLY_EINVAL, 0, buf)
        ELSE IF /\ flags \cap ALL_SCRIPT_HASH_FLAGS = {}
                /\ (bytes_len < 2 \/ bytes_len > v1plus_max_size)
        THEN Result(WALLY_EINVAL, 0, buf)
        ELSE IF as_push /\ len < 2 THEN Result(WALLY_EINVAL, 0, buf)
        ELSE LET off == IF as_push THEN 1 ELSE 0
                 len1 == IF as_push THEN len - 1 ELSE len
                 r == wally_script_push_from_bytes(bytes, bytes_len,
                          flags \ {WALLY_SCRIPT_AS_PUSH}, hash_ret,
                          Store(buf, off, <<value_to_op_n(version)>>), off + 1, len1 - 1)
             IN  IF r.ret # WALLY_OK THEN r
                 ELSE IF as_push
                 THEN Result(WALLY_OK, r.written + 2,
                             Store(r.out, 0, <<(r.written + 1) % 256>>))
                 ELSE Result(WALLY_OK, r.written + 1, r.out)

wally_witness_program_from_bytes(bytes, bytes_len, flags, hash_ret, buf, len) ==
    wally_witness_program_from_bytes_and_version(bytes, bytes_len, 0, flags,
                                                 hash_ret, buf, len)

wally_elements_pegout_script_size(genesis_blockhash_len, mainchain_script_len, sub_pubkey_len, whitelistproof_len) ==
    1 + script_get_push_size(genesis_blockhash_len)
      + script_get_push_size(mainchain_script_len)
      + script_get_push_size(sub_pubkey_len)
      + script_get_push_size(whitelistproof_len)

\* the pegout_script_push macro applied to items[i..]: st is
\* [ret, written, out, off, len, bytes_written, done]
RECURSIVE pegout_script_push(_, _, _)
pegout_script_push(items, i, st) ==
    IF i > Len(items) THEN st
    ELSE IF st.len < st.bytes_written THEN [st EXCEPT !.done = TRUE]
    ELSE LET off == st.off + st.bytes_written
             len == st.len - st.bytes_written
             r == wally_script_push_from_bytes(items[i], Len(items[i]), {}, WALLY_OK,
                                               st.out, off, len)
         IN  IF r.ret # WALLY_OK
             THEN [st EXCEPT !.ret = r.ret, !.out = r.out, !.done = TRUE]
             ELSE pegout_script_push(items, i + 1,
                      [ret |-> WALLY_OK, written |-> st.written + r.written,
                       out |-> r.out, off |-> off, len |-> len,
                       bytes_written |-> r.written, done |-> FALSE])

wally_elements_pegout_script_from_bytes(genesis_blockhash, genesis_blockhash_len, mainchain_script, mainchain_script_len, sub_pubkey, sub_pubkey_len, whitelistproof, whitelistproof_len, flags, buf, len) ==
    IF \/ genesis_blockhash = NULL \/ genesis_blockhash_len # SHA256_LEN
       \/ mainchain_script = NULL \/ mainchain_script_len = 0
       \/ sub_pubkey = NULL \/ sub_pubkey_len # EC_PUBLIC_KEY_LEN
       \/ whitelistproof = NULL \/ whitelistproof_len = 0
       \/ flags # {} \/ len = 0
    THEN Result(WALLY_EINVAL, 0, buf)
    ELSE LET st == pegout_script_push(
                       <<genesis_blockhash, mainchain_script, sub_pubkey, whitelistproof>>, 1,
                       [ret |-> WALLY_OK, written |-> 1,
                        out |-> Store(buf, 0, <<OP_RETURN>>), off |-> 0, len |-> len,
                        bytes_written |-> 1, done |-> FALSE])
         IN  Result(st.ret, st.written, st.out)

\* the BIP341 tweak is a collaborator: [ret, key], key a 33-byte compressed key
wally_ec_public_key_bip341_tweak(bytes, bytes_len, tweak_ret) ==
    [ret |-> tweak_ret,
     key |-> <<2>> \o [i \in 1..EC_XONLY_PUBLIC_KEY_LEN |-> (bytes[i + 1] + 1) % 256]]

\* pubkey_parse: a compressed key starts with parity byte 2 or 3
pubkey_parse(key) == key[1] \in {2, 3}

\* the key pubkey_serialize gives after pubkey_tweak_add with the tweak
\* wally_hmac_sha256(key, script): some compressed key that depends on both
pegin_tweaked_key(key, script, script_len) ==
    <<2 + ((key[1] + script[1]) % 2)>>
    \o [i \in 1..(EC_PUBLIC_KEY_LEN - 1) |->
          (key[i + 1] + script[((i - 1) % script_len) + 1] + 1) % 256]

\* the for (;;) of the peg-in rewrite never leaves: nothing is returned
NoReturn == 1

\* a faulty variant: keys after OP_ELSE are tweaked as well
pegin_is_tweaked_push_anywhere(opcode_size, size_out, op_else_found) ==
    opcode_size = U64(1) /\ size_out = U64(EC_PUBLIC_KEY_LEN)

\* opcode_size == 1 && size_out == EC_PUBLIC_KEY_LEN && !op_else_found
pegin_is_tweaked_push(opcode_size, size_out, op_else_found) ==
    opcode_size = U64(1) /\ size_out = U64(EC_PUBLIC_KEY_LEN) /\ ~op_else_found

\* the for (;;) loop with p = redeem_script + off, q = bytes_out + off and
\* bytes_len bytes left; ec_ok is whether the library's recomputation of
\* the tweak agrees.  *written is still 0 on every early return.
RECURSIVE pegin_loop(_, _, _, _, _, _, _, _, _, _)
pegin_loop(redeem_script, redeem_script_len, off, bytes_len, script, script_len, buf, op_else_found, ec_ok, size_bits) ==
    LET s == script_get_push_size_from_bytes(redeem_script, off, bytes_len, size_bits)
        o == script_get_push_opcode_size_from_bytes(redeem_script, off, bytes_len, size_bits)
        next(step, out, else_found) ==
            IF bytes_len - step = 0 THEN Result(WALLY_OK, redeem_script_len, out)
            ELSE IF step = 0 THEN Result(NoReturn, 0, out)
            ELSE pegin_loop(redeem_script, redeem_script_len, off + step, bytes_len - step,
                            script, script_len, out, else_found, ec_ok, size_bits)
    IN  IF s.ret = WALLY_OK
        THEN IF o.ret # WALLY_OK THEN Result(o.ret, 0, buf)
             ELSE LET offset_siz == SizeT(U64AddSmall(s.size_out, U64ToInt(o.size_out)),
                                          size_bits)
                  IN  IF U64Lt(U64(bytes_len), offset_siz) THEN Result(WALLY_EINVAL, 0, buf)
                      ELSE IF pegin_is_tweaked_push(o.size_out, s.size_out, op_else_found)
                      THEN LET key == SubSeq(redeem_script, off + 2, off + 1 + EC_PUBLIC_KEY_LEN)
                               w == wally_script_push_from_bytes(
                                        pegin_tweaked_key(key, script, script_len),
                                        EC_PUBLIC_KEY_LEN, {}, WALLY_OK, buf, off, bytes_len)
                           IN  IF ~pubkey_parse(key) THEN Result(WALLY_ERROR, 0, buf)
                               ELSE IF w.ret # WALLY_OK THEN Result(w.ret, 0, w.out)
                               ELSE IF ~ec_ok THEN Result(WALLY_ERROR, 0, w.out)
                               ELSE next(U64ToInt(offset_siz), w.out, op_else_found)
                      ELSE next(U64ToInt(offset_siz),
                                Store(buf, off, SubSeq(redeem_script, off + 1,
                                                       off + U64ToInt(offset_siz))),
                                op_else_found)
        ELSE next(1, Store(buf, off, <<At(redeem_script, off)>>),
                  op_else_found \/ At(redeem_script, off) = OP_ELSE)

wally_elements_pegin_contract_script_from_bytes(redeem_script, redeem_script_len, script, script_len, flags, buf, len, ec_ok, size_bits) ==
    IF \/ redeem_script = NULL \/ redeem_script_len = 0 \/ script = NULL
       \/ script_len = 0 \/ flags # {} \/ len # redeem_script_len
    THEN Result(WALLY_EINVAL, 0, buf)
    ELSE pegin_loop(redeem_script, redeem_script_len, 0, redeem_script_len, script,
                    script_len, buf, FALSE, ec_ok, size_bits)

\* the tweak is a collaborator's HMAC-SHA256 of the script under the key
wally_hmac_sha256(key, key_len, bytes, bytes_len) ==
    [i \in 1..SHA256_LEN |-> (key[((i - 1) % key_len) + 1] + bytes[((i - 1) % bytes_len) + 1] + i) % 256]

\* unsigned char tweak[HMAC_SHA256_LEN] at the return of the peg-in loop:
\* the same walk as pegin_loop, carrying the bytes the last key left there
RECURSIVE pegin_tweak_loop(_, _, _, _, _, _, _, _, _)
pegin_tweak_loop(redeem_script, off, bytes_len, script, script_len, tweak, op_else_found, ec_ok, size_bits) ==
    LET s == script_get_push_size_from_bytes(redeem_script, off, bytes_len, size_bits)
        o == script_get_push_opcode_size_from_bytes(redeem_script, off, bytes_len, size_bits)
        next(step, t, else_found) ==
            IF bytes_len - step = 0 \/ step = 0 THEN t
            ELSE pegin_tweak_loop(redeem_script, off + step, bytes_len - step,
                                  script, script_len, t, else_found, ec_ok, size_bits)
    IN  IF s.ret = WALLY_OK
        THEN IF o.ret # WALLY_OK THEN tweak
             ELSE LET offset_siz == SizeT(U64AddSmall(s.size_out, U64ToInt(o.size_out)),
                                          size_bits)
                  IN  IF U64Lt(U64(bytes_len), offset_siz) THEN tweak
                      ELSE IF pegin_is_tweaked_push(o.size_out, s.size_out, op_else_found)
                      THEN LET key == SubSeq(redeem_script, off + 2, off + 1 + EC_PUBLIC_KEY_LEN)
                               t == wally_hmac_sha256(key, EC_PUBLIC_KEY_LEN, script, script_len)
                           IN  IF ~pubkey_parse(key) THEN tweak
                               ELSE IF ~ec_ok THEN t
                               ELSE next(U64ToInt(offset_siz), t, op_else_found)
                      ELSE next(U64ToInt(offset_siz), tweak, op_else_found)
        ELSE next(1, tweak, op_else_found \/ At(redeem_script, off) = OP_ELSE)

pegin_contract_script_tweak(redeem_script, redeem_script_len, script, script_len, flags, len, ec_ok, size_bits) ==
    IF \/ redeem_script = NULL \/ redeem_script_len = 0 \/ script = NULL
       \/ script_len = 0 \/ flags # {} \/ len # redeem_script_len
    THEN Local(SHA256_LEN)
    ELSE pegin_tweak_loop(redeem_script, 0, redeem_script_len, script, script_len,
                          Local(SHA256_LEN), FALSE, ec_ok, size_bits)

\* what a witness function leaves behind: its return value, whether *output
\* is null, the items of the stack it points to otherwise, and the number of
\* stacks allocated and not freed
WitnessResult(ret, null, items, live) ==
    [ret |-> ret, null |-> null, items |-> items, live |-> live]

\* wally_tx_witness_stack_add(*output, p, push_size): allocation number
\* fail_at fails (the stack itself is number 1), and so does one of more
\* bytes than there are at p, which only a wrapped 32-bit size asks for
wally_tx_witness_stack_add(items, bytes, p, push_size, left, fail_at) ==
    IF U64Lt(U64(left), push_size) \/ fail_at = Len(items) + 2
    THEN [ret |-> WALLY_ENOMEM, items |-> items]
    ELSE [ret |-> WALLY_OK,
          items |-> Append(items, SubSeq(bytes, p + 1, p + U64ToInt(push_size)))]

\* the while loop of scriptsig_to_witness with p = bytes + off: [ret, items]
RECURSIVE scriptsig_to_witness_loop(_, _, _, _, _, _)
scriptsig_to_witness_loop(bytes, off, bytes_len, items, fail_at, size_bits) ==
    IF off >= bytes_len THEN [ret |-> WALLY_OK, items |-> items]
    ELSE LET s == script_get_push_size_from_bytes(bytes, off, bytes_len - off, size_bits)
             o == script_get_push_opcode_size_from_bytes(bytes, off, bytes_len - off,
                                                         size_bits)
         IN  IF s.ret # WALLY_OK THEN [ret |-> s.ret, items |-> items]
             ELSE IF o.ret # WALLY_OK THEN [ret |-> o.ret, items |-> items]
             ELSE LET p == off + U64ToInt(o.size_out)
                      a == wally_tx_witness_stack_add(items, bytes, p, s.size_out,
                                                      bytes_len - p, fail_at)
                  IN  IF a.ret # WALLY_OK THEN a
                      ELSE scriptsig_to_witness_loop(bytes, p + U64ToInt(s.size_out),
                                                     bytes_len, a.items, fail_at, size_bits)

\* a faulty variant: the stack built so far is handed back on failure
scriptsig_to_witness_done_partial(ret, items) ==
    WitnessResult(ret, FALSE, items, 1)

\* the end of scriptsig_to_witness: on failure the stack is freed and
\* *output set to NULL
scriptsig_to_witness_done(ret, items) ==
    IF ret # WALLY_OK THEN WitnessResult(ret, TRUE, <<>>, 0)
    ELSE WitnessResult(WALLY_OK, FALSE, items, 1)

scriptsig_to_witness(bytes, bytes_len, output_null, fail_at, size_bits) ==
    IF bytes = NULL \/ bytes_len = 0 \/ output_null
    THEN WitnessResult(WALLY_EINVAL, TRUE, <<>>, 0)
    ELSE IF fail_at = 1 THEN WitnessResult(WALLY_ENOMEM, TRUE, <<>>, 0)
    ELSE LET l == scriptsig_to_witness_loop(bytes, 0, bytes_len, <<>>, fail_at, size_bits)
         IN  scriptsig_to_witness_done(l.ret, l.items)

wally_witness_p2wpkh_from_der(pub_key, pub_key_len, sig, sig_len, witness_null, fail_at, size_bits) ==
    LET r == wally_scriptsig_p2pkh_from_der(pub_key, pub_key_len, sig, sig_len,
                 FreshBuf(WALLY_SCRIPTSIG_P2PKH_MAX_LEN), WALLY_SCRIPTSIG_P2PKH_MAX_LEN)
    IN  IF r.ret # WALLY_OK THEN WitnessResult(r.ret, TRUE, <<>>, 0)
        ELSE IF r.written > WALLY_SCRIPTSIG_P2PKH_MAX_LEN
        THEN WitnessResult(WALLY_ERROR, TRUE, <<>>, 0)
        ELSE scriptsig_to_witness(r.out.mem, r.written, witness_null, fail_at, size_bits)

\* a faulty variant: the sighash byte is left off the signature
wally_witness_p2wpkh_from_sig_nohash(pub_key, pub_key_len, sig, sig_len, sighash, witness_null, fail_at, size_bits) ==
    wally_witness_p2wpkh_from_der(pub_key, pub_key_len, wally_ec_sig_to_der(sig, sig_len).der,
                                  Len(wally_ec_sig_to_der(sig, sig_len).der),
                                  witness_null, fail_at, size_bits)

wally_witness_p2wpkh_from_sig(pub_key, pub_key_len, sig, sig_len, sighash, witness_null, fail_at, size_bits) ==
    LET r == wally_scriptsig_p2pkh_from_sig(pub_key, pub_key_len, sig, sig_len, sighash,
                 FreshBuf(WALLY_SCRIPTSIG_P2PKH_MAX_LEN), WALLY_SCRIPTSIG_P2PKH_MAX_LEN)
    IN  IF r.ret # WALLY_OK THEN WitnessResult(r.ret, TRUE, <<>>, 0)
        ELSE IF r.written > WALLY_SCRIPTSIG_P2PKH_MAX_LEN
        THEN WitnessResult(WALLY_ERROR, TRUE, <<>>, 0)
        ELSE scriptsig_to_witness(r.out.mem, r.written, witness_null, fail_at, size_bits)

\* malloc_ok is whether wally_malloc(buff_len) gives a buffer
wally_witness_multisig_from_bytes(script, script_len, bytes, bytes_len, sighash, sighash_len, flags, witness_null, malloc_ok, fail_at, size_bits) ==
    IF script = NULL \/ script_len = 0 THEN WitnessResult(WALLY_EINVAL, TRUE, <<>>, 0)
    ELSE LET n == script_is_op_n(At(script, 0), FALSE)
             n_sigs == n.n
             buff_len == 1 + (1 + DER_AND_HASH_MAX_LEN) * n_sigs
                         + script_get_push_size(script_len)
             r == wally_scriptsig_multisig_from_bytes(script, script_len, bytes, bytes_len,
                      sighash, sighash_len, flags, FreshBuf(buff_len), buff_len)
         IN  IF ~n.ok \/ n_sigs = 0 \/ n_sigs > 15
             THEN WitnessResult(WALLY_EINVAL, TRUE, <<>>, 0)
             ELSE IF ~malloc_ok THEN WitnessResult(WALLY_ENOMEM, TRUE, <<>>, 0)
             ELSE IF r.ret # WALLY_OK THEN WitnessResult(r.ret, TRUE, <<>>, 0)
             ELSE IF r.written > buff_len THEN WitnessResult(WALLY_ERROR, TRUE, <<>>, 0)
             ELSE scriptsig_to_witness(r.out.mem, r.written, witness_null, fail_at, size_bits)

\* a faulty variant: the capacity is not looked at
wally_scriptpubkey_p2tr_from_bytes_nolen(bytes, bytes_len, flags, tweak_ret, buf, len) ==
    IF bytes = NULL THEN Result(WALLY_EINVAL, 0, buf)
    ELSE IF flags \ {EC_FLAG_ELEMENTS} # {} THEN Result(WALLY_EINVAL, 0, buf)
    ELSE IF bytes_len = EC_PUBLIC_KEY_LEN
    THEN LET t == wally_ec_public_key_bip341_tweak(bytes, bytes_len, tweak_ret)
         IN  IF t.ret # WALLY_OK THEN Result(t.ret, 0, buf)
             ELSE Result(WALLY_OK, WALLY_SCRIPTPUBKEY_P2TR_LEN,
                         Store(buf, 0, <<OP_1, EC_XONLY_PUBLIC_KEY_LEN>> \o Tail(t.key)))
    ELSE IF bytes_len # EC_XONLY_PUBLIC_KEY_LEN THEN Result(WALLY_EINVAL, 0, buf)
    ELSE Result(WALLY_OK, WALLY_SCRIPTPUBKEY_P2TR_LEN,
                Store(buf, 0, <<OP_1, bytes_len>> \o SubSeq(bytes, 1, bytes_len)))

\* flags is checked as in a build with BUILD_ELEMENTS
wally_scriptpubkey_p2tr_from_bytes(bytes, bytes_len, flags, tweak_ret, buf, len) ==
    IF bytes = NULL THEN Result(WALLY_EINVAL, 0, buf)
    ELSE IF flags \ {EC_FLAG_ELEMENTS} # {} THEN Result(WALLY_EINVAL, 0, buf)
    ELSE IF len < WALLY_SCRIPTPUBKEY_P2TR_LEN
    THEN Result(WALLY_OK, WALLY_SCRIPTPUBKEY_P2TR_LEN, buf)
    ELSE IF bytes_len = EC_PUBLIC_KEY_LEN
    THEN LET t == wally_ec_public_key_bip341_tweak(bytes, bytes_len, tweak_ret)
         IN  IF t.ret # WALLY_OK THEN Result(t.ret, 0, buf)
             ELSE Result(WALLY_OK, WALLY_SCRIPTPUBKEY_P2TR_LEN,
                         Store(buf, 0, <<OP_1, EC_XONLY_PUBLIC_KEY_LEN>> \o Tail(t.key)))
    ELSE IF bytes_len # EC_XONLY_PUBLIC_KEY_LEN THEN Result(WALLY_EINVAL, 0, buf)
    ELSE Result(WALLY_OK, WALLY_SCRIPTPUBKEY_P2TR_LEN,
                Store(buf, 0, <<OP_1, bytes_len>> \o SubSeq(bytes, 1, bytes_len)))

(***************************************************************************)
(* Inputs of the integer codecs                                             *)
(***************************************************************************)
Around(S, lo, hi) ==
    {x \in {b + d : b \in S, d \in (0 - IntDelta)..IntDelta} : lo <= x /\ x <= hi}

LimbValues == Around({0, VI_MAX_8, 65535}, 0, 65535)
HighLimbValues == {0, 1, 65535}
VarintValues == {<<a, b, c, d>> : a \in LimbValues, b \in LimbValues,
                                  c \in HighLimbValues, d \in HighLimbValues}

INT32_MAX == 2147483647
ScriptIntMagnitudes ==
    Around({0, 16, 127, 255, 32767, 65535, 8388607, 16777215}, 0, 16777300)
    \cup {INT32_MAX - d : d \in 0..(IntDelta + 1)}
ScriptIntValues == ScriptIntMagnitudes \cup {-m : m \in ScriptIntMagnitudes}

NoRes == [none |-> TRUE]

(***************************************************************************)
(* The integer codecs' caller: encode, then decode what was encoded         *)
(***************************************************************************)
InitInt ==
    /\ pc = "start"
    /\ res = NoRes
    /\ res2 = NoRes
    /\ \/ op = "varint" /\ args \in [v : VarintValues]
       \/ op = "scriptint" /\ args \in [v : ScriptIntValues]

VarintEncode ==
    /\ op = "varint" /\ pc = "start"
    /\ res' = [bytes |-> varint_to_bytes(args.v), n |-> Len(varint_to_bytes(args.v))]
    /\ pc' = "called"
    /\ UNCHANGED <<op, args, res2>>

VarintDecode ==
    /\ op = "varint" /\ pc = "called"
    /\ res2' = varint_from_bytes(res.bytes)
    /\ pc' = "done"
    /\ UNCHANGED <<op, args, res>>

\* the length byte the callers write, then the encoded integer
ScriptintEncode ==
    /\ op = "scriptint" /\ pc = "start"
    /\ res' = [bytes |-> scriptint_to_bytes(args.v),
               n |-> Len(scriptint_to_bytes(args.v)),
               buf |-> <<scriptint_get_length(args.v) % 256>> \o scriptint_to_bytes(args.v)]
    /\ pc' = "called"
    /\ UNCHANGED <<op, args, res2>>

ScriptintDecode ==
    /\ op = "scriptint" /\ pc = "called"
    /\ res2' = scriptint_from_bytes(res.buf, Len(res.buf))
    /\ pc' = "done"
    /\ UNCHANGED <<op, args, res>>

NextInt == VarintEncode \/ VarintDecode \/ ScriptintEncode \/ ScriptintDecode

SpecInt == InitInt /\ [][NextInt]_vars

(***************************************************************************)
(* Inputs of the builders                                                   *)
(***************************************************************************)
\* n bytes that differ from place to place
Data(n, seed) == [i \in 1..n |-> (seed + 3 * i) % 256]

\* a compressed public key
Key(seed) == <<2 + (seed % 2)>> \o Data(EC_PUBLIC_KEY_LEN - 1, seed)

\* the capacities tried for a script of n bytes: none, too small, exact, larger
Caps(n) == {c \in {0, 1, 2, n - 1, n, n + 1} : c >= 0}

\* payload lengths around the boundaries of the push forms
SmallPushLengths ==
    {n \in {b + d : b \in {1, 76, 256}, d \in (0 - PushDelta)..PushDelta} : n >= 0}
LargePushLengths == {65536 + d : d \in (0 - PushDelta)..PushDelta}

HashRets(flags) ==
    IF flags \cap ALL_SCRIPT_HASH_FLAGS # {} THEN {WALLY_OK, WALLY_EINVAL} ELSE {WALLY_OK}

PushFlags == {{}, {WALLY_SCRIPT_HASH160}, {WALLY_SCRIPT_SHA256},
              {WALLY_SCRIPT_HASH160, WALLY_SCRIPT_SHA256}, {WALLY_SCRIPT_AS_PUSH}}

PushArgsOfLengths(lengths) ==
    UNION {{[bytes |-> Data(n, 1), bytes_len |-> n, flags |-> {}, hash_ret |-> WALLY_OK,
             len |-> c] : c \in Caps(script_get_push_size(n))} : n \in lengths}

PushArgs ==
    PushArgsOfLengths(SmallPushLengths)
    \cup {[bytes |-> b, bytes_len |-> IF b = NULL THEN 0 ELSE Len(b), flags |-> f,
           hash_ret |-> h, len |-> c] :
            b \in {NULL, Key(1)}, f \in PushFlags, h \in {WALLY_OK, WALLY_EINVAL},
            c \in {0, 1, 20, 21, 32, 33, 34, 35}}
    \cup {[bytes |-> NULL, bytes_len |-> 5, flags |-> {}, hash_ret |-> WALLY_OK, len |-> 8]}

P2pkhArgs ==
    {[bytes |-> b, bytes_len |-> IF b = NULL THEN 0 ELSE Len(b), flags |-> f,
      hash_ret |-> h, len |-> c] :
        b \in {NULL, Data(HASH160_LEN, 5), Data(HASH160_LEN + 1, 5), Key(1),
               Data(EC_PUBLIC_KEY_UNCOMPRESSED_LEN, 4)},
        f \in {{}, {WALLY_SCRIPT_HASH160}, {WALLY_SCRIPT_SHA256}},
        h \in {WALLY_OK, WALLY_EINVAL},
        c \in Caps(WALLY_SCRIPTPUBKEY_P2PKH_LEN)}

P2shArgs ==
    {[bytes |-> b, bytes_len |-> IF b = NULL THEN 0 ELSE Len(b), flags |-> f,
      hash_ret |-> h, len |-> c] :
        b \in {NULL, Data(HASH160_LEN, 5), Data(HASH160_LEN + 1, 5), Data(40, 9)},
        f \in {{}, {WALLY_SCRIPT_HASH160}, {WALLY_SCRIPT_SHA256}},
        h \in {WALLY_OK, WALLY_EINVAL},
        c \in Caps(WALLY_SCRIPTPUBKEY_P2SH_LEN)}

OpReturnArgs ==
    {[bytes |-> IF n = 0 THEN NULL ELSE Data(n, 7), bytes_len |-> n, flags |-> f, len |-> c] :
        n \in {0, 1, 4, 75, 76, WALLY_MAX_OP_RETURN_LEN, WALLY_MAX_OP_RETURN_LEN + 1},
        f \in {{}, {WALLY_SCRIPT_HASH160}},
        c \in {0, 1, 2, 3, 5, 6, 7, 76, 77, 78, 79, 80, 82, 83, 84}}

\* key lists: one to MaxKeys keys in more than one order
KeyLists ==
    UNION {[1..n -> {Key(1), Key(2), Key(200)}] : n \in 1..MaxKeys}

MultisigArgs ==
    {[bytes |-> Concat(ks), bytes_len |-> Len(ks) * EC_PUBLIC_KEY_LEN, threshold |-> t,
      flags |-> f, len |-> c] :
        ks \in KeyLists, t \in {0, 1, 2, MaxKeys + 1},
        f \in {{}, {WALLY_SCRIPT_MULTISIG_SORTED}, {WALLY_SCRIPT_HASH160}},
        c \in {0, 1, 36, 37, 38, 70, 71, 72, 3 + MaxKeys * (EC_PUBLIC_KEY_LEN + 1)}}
    \cup {[bytes |-> Data(34, 1), bytes_len |-> 34, threshold |-> 1, flags |-> {},
           len |-> 40]}

CsvArgs ==
    {[bytes |-> b, bytes_len |-> Len(b), csv_blocks |-> d, flags |-> f, len |-> c] :
        b \in {Key(1) \o Key(2), Key(1) \o Data(32, 1)},
        d \in {16, 17, 127, 128, 144, 255, 256, 32767, 32768, 65535, 65536},
        f \in {{}, {WALLY_SCRIPT_HASH160}},
        c \in {0, 1, 76, 77, 78, 79, 80, 81, 82}}

WitnessProgramArgs ==
    {a \in
       {[bytes |-> IF n = 0 THEN NULL ELSE Data(n, 3), bytes_len |-> n, version |-> v,
         flags |-> f, hash_ret |-> h, len |-> c] :
           n \in {0, 1, 2, HASH160_LEN, SHA256_LEN, 40, 41},
           v \in {0, 1, 17},
           f \in {{}, {WALLY_SCRIPT_HASH160}, {WALLY_SCRIPT_SHA256}, {WALLY_SCRIPT_AS_PUSH},
                  {WALLY_SCRIPT_AS_PUSH, WALLY_SCRIPT_SHA256},
                  {WALLY_SCRIPT_HASH160, WALLY_SCRIPT_SHA256}},
           h \in {WALLY_OK, WALLY_EINVAL},
           c \in {0, 1, 2, 3, 22, 23, 34, 35, 36}} :
       a.hash_ret \in HashRets(a.flags)}

P2trArgs ==
    {[bytes |-> b, bytes_len |-> IF b = NULL THEN 0 ELSE Len(b), flags |-> f,
      tweak_ret |-> t, len |-> c] :
        b \in {NULL, Data(EC_XONLY_PUBLIC_KEY_LEN, 8), Key(1), Data(5, 1), Data(34, 1)},
        f \in {{}, {EC_FLAG_ELEMENTS}, {WALLY_SCRIPT_HASH160}},
        t \in {WALLY_OK, WALLY_EINVAL},
        c \in Caps(WALLY_SCRIPTPUBKEY_P2TR_LEN)}

ScriptsigP2pkhDerArgs ==
    {[pub_key |-> k, pub_key_len |-> Len(k), sig |-> g, sig_len |-> Len(g), len |-> c] :
        k \in {Key(1), Data(EC_PUBLIC_KEY_UNCOMPRESSED_LEN, 4), Data(32, 1)},
        g \in {Data(1, 1), Data(71, 48), Data(EC_SIGNATURE_DER_MAX_LEN + 1, 48),
               Data(EC_SIGNATURE_DER_MAX_LEN + 2, 48)},
        c \in {0, 1, 35, 36, 37, 105, 106, 107, 108, 109, 139, 140, 141}}

ScriptsigP2pkhSigArgs ==
    {[pub_key |-> k, pub_key_len |-> Len(k), sig |-> g, sig_len |-> Len(g),
      sighash |-> h, len |-> c] :
        k \in {Key(1), Data(32, 1)},
        g \in {Data(EC_SIGNATURE_LEN, 0), Data(EC_SIGNATURE_LEN, 1),
               Data(EC_SIGNATURE_LEN, 2), Data(EC_SIGNATURE_LEN - 1, 0)},
        h \in {1, 255, 256},
        c \in {0, 1, 105, 106, 107, 108, 109, 110}}

SigLists == UNION {[1..n -> {Data(EC_SIGNATURE_LEN, 0), Data(EC_SIGNATURE_LEN, 2)}] : n \in 1..MaxSigs}

ScriptsigMultisigArgs ==
    {[script |-> Data(37, 81), script_len |-> 37, bytes |-> Concat(gs),
      bytes_len |-> Len(Concat(gs)), sighash |-> hs, sighash_len |-> Len(hs),
      flags |-> {}, len |-> c] :
        gs \in SigLists,
        hs \in UNION {[1..n -> {1, 256}] : n \in 1..MaxSigs},
        c \in {0, 1, 110, 111, 113, 114, 183, 185, 187, 188}}
    \cup {[script |-> Data(37, 81), script_len |-> 37, bytes |-> Data(EC_SIGNATURE_LEN, 0) \o x,
           bytes_len |-> EC_SIGNATURE_LEN + Len(x), sighash |-> <<1>>, sighash_len |-> 1,
           flags |-> f, len |-> 120] :
            x \in {<<>>, <<0>>}, f \in {{}, {WALLY_SCRIPT_HASH160}}}

PegoutArgs ==
    {[genesis_blockhash |-> g, mainchain_script |-> m, sub_pubkey |-> k,
      whitelistproof |-> w, flags |-> f, len |-> c] :
        g \in {Data(SHA256_LEN, 6), Data(SHA256_LEN - 1, 6)},
        m \in {Data(1, 1), Data(WALLY_SCRIPTPUBKEY_P2PKH_LEN, 118)},
        k \in {Key(1)},
        w \in {Data(1, 2), Data(WALLY_MAX_OP_RETURN_LEN, 2)},
        f \in {{}, {WALLY_SCRIPT_HASH160}},
        c \in {0, 1, 2, 33, 34, 35, 36, 37, 60, 69, 70, 71, 72, 73, 93, 94, 95, 96,
               150, 151, 152, 153, 174, 175, 176, 177}}

Builders == {"push", "p2pkh", "p2sh", "op_return", "multisig", "csv", "csv_opt",
             "witness_program", "p2tr", "scriptsig_p2pkh_der", "scriptsig_p2pkh_sig",
             "scriptsig_multisig", "pegout"}

BuilderArgs(o) ==
    CASE o = "push" -> PushArgs
      [] o = "p2pkh" -> P2pkhArgs
      [] o = "p2sh" -> P2shArgs
      [] o = "op_return" -> OpReturnArgs
      [] o = "multisig" -> MultisigArgs
      [] o = "csv" -> CsvArgs
      [] o = "csv_opt" -> CsvArgs
      [] o = "witness_program" -> WitnessProgramArgs
      [] o = "p2tr" -> P2trArgs
      [] o = "scriptsig_p2pkh_der" -> ScriptsigP2pkhDerArgs
      [] o = "scriptsig_p2pkh_sig" -> ScriptsigP2pkhSigArgs
      [] o = "scriptsig_multisig" -> ScriptsigMultisigArgs
      [] o = "pegout" -> PegoutArgs

\* one call of each builder with inputs a and a fresh output buffer of len bytes
CallPush(a, len) ==
    wally_script_push_from_bytes(a.bytes, a.bytes_len, a.flags, a.hash_ret,
                                 FreshBuf(len), 0, len)

CallP2pkh(a, len) ==
    wally_scriptpubkey_p2pkh_from_bytes(a.bytes, a.bytes_len, a.flags, a.hash_ret,
                                        FreshBuf(len), len)

CallP2sh(a, len) ==
    wally_scriptpubkey_p2sh_from_bytes(a.bytes, a.bytes_len, a.flags, a.hash_ret,
                                       FreshBuf(len), len)

CallOpReturn(a, len) ==
    wally_scriptpubkey_op_return_from_bytes(a.bytes, a.bytes_len, a.flags,
                                            FreshBuf(len), len)

CallMultisig(a, len) ==
    wally_scriptpubkey_multisig_from_bytes(a.bytes, a.bytes_len, a.threshold,
                                           a.flags, FreshBuf(len), len)

CallCsv(a, len) ==
    wally_scriptpubkey_csv_2of2_then_1_from_bytes(a.bytes, a.bytes_len,
        a.csv_blocks, a.flags, FreshBuf(len), len)

CallCsvOpt(a, len) ==
    wally_scriptpubkey_csv_2of2_then_1_from_bytes_opt(a.bytes, a.bytes_len,
        a.csv_blocks, a.flags, FreshBuf(len), len)

CallWitnessProgram(a, len) ==
    wally_witness_program_from_bytes_and_version(a.bytes, a.bytes_len, a.version,
        a.flags, a.hash_ret, FreshBuf(len), len)

CallP2tr(a, len) ==
    wally_scriptpubkey_p2tr_from_bytes(a.bytes, a.bytes_len, a.flags, a.tweak_ret,
                                       FreshBuf(len), len)

CallScriptsigP2pkhDer(a, len) ==
    wally_scriptsig_p2pkh_from_der(a.pub_key, a.pub_key_len, a.sig, a.sig_len,
                                   FreshBuf(len), len)

CallScriptsigP2pkhSig(a, len) ==
    wally_scriptsig_p2pkh_from_sig(a.pub_key, a.pub_key_len, a.sig, a.sig_len,
                                   a.sighash, FreshBuf(len), len)

CallScriptsigMultisig(a, len) ==
    wally_scriptsig_multisig_from_bytes(a.script, a.script_len, a.bytes,
        a.bytes_len, a.sighash, a.sighash_len, a.flags, FreshBuf(len), len)

CallPegout(a, len) ==
    wally_elements_pegout_script_from_bytes(
        a.genesis_blockhash, Len(a.genesis_blockhash),
        a.mainchain_script, Len(a.mainchain_script),
        a.sub_pubkey, Len(a.sub_pubkey),
        a.whitelistproof, Len(a.whitelistproof),
        a.flags, FreshBuf(len), len)

\* the same call again, for the builder named o
Build(o, a, len) ==
    CASE o = "push" -> CallPush(a, len)
      [] o = "p2pkh" -> CallP2pkh(a, len)
      [] o = "p2sh" -> CallP2sh(a, len)
      [] o = "op_return" -> CallOpReturn(a, len)
      [] o = "multisig" -> CallMultisig(a, len)
      [] o = "csv" -> CallCsv(a, len)
      [] o = "csv_opt" -> CallCsvOpt(a, len)
      [] o = "witness_program" -> CallWitnessProgram(a, len)
      [] o = "p2tr" -> CallP2tr(a, len)
      [] o = "scriptsig_p2pkh_der" -> CallScriptsigP2pkhDer(a, len)
      [] o = "scriptsig_p2pkh_sig" -> CallScriptsigP2pkhSig(a, len)
      [] o = "scriptsig_multisig" -> CallScriptsigMultisig(a, len)
      [] o = "pegout" -> CallPegout(a, len)

(***************************************************************************)
(* The builders' caller: one call with the buffer it has; when the call     *)
(* reports a length beyond that buffer, a second call with the same inputs  *)
(* and a buffer of at least the reported length; after a push that fitted,  *)
(* the push is decoded again.                                               *)
(***************************************************************************)
InitBuild ==
    /\ pc = "start"
    /\ res = NoRes
    /\ res2 = NoRes
    /\ op \in Builders
    /\ args \in BuilderArgs(op)

Called(o) ==
    /\ op = o /\ pc = "start"
    /\ pc' = "called"
    /\ UNCHANGED <<op, args, res2>>

PushFromBytes ==
    /\ Called("push")
    /\ res' = CallPush(args, args.len)
              @@ [scratch |-> push_from_bytes_buff(args.bytes, args.bytes_len, args.flags,
                                                   args.hash_ret, args.len)]
P2pkhFromBytes == Called("p2pkh") /\ res' = CallP2pkh(args, args.len)
P2shFromBytes == Called("p2sh") /\ res' = CallP2sh(args, args.len)
OpReturnFromBytes == Called("op_return") /\ res' = CallOpReturn(args, args.len)
MultisigFromBytes == Called("multisig") /\ res' = CallMultisig(args, args.len)
Csv2of2Then1FromBytes == Called("csv") /\ res' = CallCsv(args, args.len)
Csv2of2Then1FromBytesOpt == Called("csv_opt") /\ res' = CallCsvOpt(args, args.len)
WitnessProgramFromBytes == Called("witness_program") /\ res' = CallWitnessProgram(args, args.len)
P2trFromBytes == Called("p2tr") /\ res' = CallP2tr(args, args.len)
ScriptsigP2pkhFromDer == Called("scriptsig_p2pkh_der") /\ res' = CallScriptsigP2pkhDer(args, args.len)
ScriptsigP2pkhFromSig ==
    /\ Called("scriptsig_p2pkh_sig")
    /\ res' = CallScriptsigP2pkhSig(args, args.len)
              @@ [scratch |-> scriptsig_p2pkh_from_sig_buff(args.sig, args.sig_len, args.sighash)]
ScriptsigMultisigFromBytes ==
    /\ Called("scriptsig_multisig")
    /\ res' = CallScriptsigMultisig(args, args.len)
              @@ [scratch |-> scriptsig_multisig_der_buff(args.script, args.script_len,
                                  args.bytes, args.bytes_len, args.sighash, args.sighash_len,
                                  args.flags, FreshBuf(args.len), args.len)]
PegoutScriptFromBytes == Called("pegout") /\ res' = CallPegout(args, args.len)

\* the caller allocates what the first call asked for, or a little more
Refill ==
    /\ op \in Builders /\ pc = "called"
    /\ res.ret = WALLY_OK /\ res.written > args.len
    /\ \E extra \in 0..MaxExtra :
          res2' = [len |-> res.written + extra] @@ Build(op, args, res.written + extra)
    /\ pc' = "refilled"
    /\ UNCHANGED <<op, args, res>>

\* the push that was written is read back
DecodePush ==
    /\ op = "push" /\ pc = "called"
    /\ res.ret = WALLY_OK /\ res.written <= args.len
    /\ \E size_bits \in SizeBits :
          res2' = [size_bits |-> size_bits,
                   opcode |-> script_get_push_opcode_size_from_bytes(
                                  res.out.mem, 0, res.written, size_bits),
                   push |-> script_get_push_size_from_bytes(
                                res.out.mem, 0, res.written, size_bits)]
    /\ pc' = "decoded"
    /\ UNCHANGED <<op, args, res>>

\* the builders whose output is a scriptPubkey
ScriptPubkeyBuilders ==
    {"p2pkh", "p2sh", "op_return", "multisig", "csv", "csv_opt", "witness_program", "p2tr"}

\* the scriptPubkey that was built is classified, and its CSV delay read
ClassifyBuilt ==
    /\ op \in ScriptPubkeyBuilders /\ pc = "called"
    /\ res.ret = WALLY_OK /\ res.written <= args.len
    /\ \E size_bits \in SizeBits :
          LET script == SubSeq(res.out.mem, 1, res.written)
          IN  res2' = [size_bits |-> size_bits,
                       script |-> script,
                       type |-> wally_scriptpubkey_get_type(script, res.written, FALSE,
                                                            size_bits),
                       csv |-> wally_scriptpubkey_csv_blocks_from_csv_2of2_then_1(
                                   script, res.written, FALSE)]
    /\ pc' = "classified"
    /\ UNCHANGED <<op, args, res>>

NextBuild ==
    \/ PushFromBytes \/ P2pkhFromBytes \/ P2shFromBytes \/ OpReturnFromBytes
    \/ MultisigFromBytes \/ Csv2of2Then1FromBytes \/ Csv2of2Then1FromBytesOpt
    \/ WitnessProgramFromBytes \/ P2trFromBytes
    \/ ScriptsigP2pkhFromDer \/ ScriptsigP2pkhFromSig \/ ScriptsigMultisigFromBytes
    \/ PegoutScriptFromBytes
    \/ Refill \/ DecodePush \/ ClassifyBuilt

SpecBuild == InitBuild /\ [][NextBuild]_vars

(***************************************************************************)
(* The same caller with payloads around the longest push form               *)
(***************************************************************************)
InitPush ==
    /\ pc = "start"
    /\ res = NoRes
    /\ res2 = NoRes
    /\ op = "push"
    /\ args \in PushArgsOfLengths(SmallPushLengths \cup LargePushLengths)

NextPush == PushFromBytes \/ Refill \/ DecodePush

SpecPush == InitPush /\ [][NextPush]_vars

(***************************************************************************)
(* The readers: a caller hands get_push_size and the classifier a buffer    *)
(***************************************************************************)
\* the first bytes: direct pushes, the three OP_PUSHDATA forms, other opcodes
FirstBytes == {0, 1, 75, OP_PUSHDATA1, OP_PUSHDATA2, OP_PUSHDATA4, 79, OP_1, OP_RETURN, 255}

\* the four bytes after the first: every length field the forms can read
LengthFields == {<<a, b, c, d>> : a \in {0, 1, 255}, b \in {0, 1, 255},
                                   c \in {0, 255}, d \in {0, 255}}

\* the buffer lengths: around each header length and each boundary payload
BufferLengths ==
    {n \in {b + d : b \in {1, 3, 5, 76, 258, 261}, d \in (0 - PushDelta)..PushDelta} : n >= 0}

PushSizeArgs ==
    {[bytes |-> SubSeq(<<b0>> \o f \o Data(270, b0), 1, n), bytes_len |-> n,
      size_bits |-> w] : b0 \in FirstBytes, f \in LengthFields, n \in BufferLengths,
                         w \in SizeBits}
    \cup {[bytes |-> NULL, bytes_len |-> n, size_bits |-> w] : n \in {0, 5}, w \in SizeBits}

\* scripts of each pattern
P2pkhScript(h) == <<OP_DUP, OP_HASH160, 20>> \o h \o <<OP_EQUALVERIFY, OP_CHECKSIG>>
P2shScript(h) == <<OP_HASH160, 20>> \o h \o <<OP_EQUAL>>
P2wpkhScript(h) == <<OP_0, 20>> \o h
P2wshScript(h) == <<OP_0, 32>> \o h
P2trScript(k) == <<OP_1, 32>> \o k
MultisigScript(m, keys) ==
    <<value_to_op_n(m)>> \o Concat([i \in 1..Len(keys) |-> <<Len(keys[i])>> \o keys[i]])
    \o <<value_to_op_n(Len(keys)), OP_CHECKMULTISIG>>
CsvScript(blocks) ==
    <<OP_DEPTH, OP_1SUB, OP_IF, EC_PUBLIC_KEY_LEN>> \o Key(1)
    \o <<OP_CHECKSIGVERIFY, OP_ELSE>> \o blocks
    \o <<OP_CHECKSEQUENCEVERIFY, OP_DROP, OP_ENDIF, EC_PUBLIC_KEY_LEN>> \o Key(2)
    \o <<OP_CHECKSIG>>
CsvOptScript(blocks) ==
    <<EC_PUBLIC_KEY_LEN>> \o Key(1) \o <<OP_CHECKSIGVERIFY, EC_PUBLIC_KEY_LEN>> \o Key(2)
    \o <<OP_CHECKSIG, OP_IFDUP, OP_NOTIF>> \o blocks
    \o <<OP_CHECKSEQUENCEVERIFY, OP_ENDIF>>

\* the 20-byte hashes: among them one made of OP_RETURN bytes
Hashes == {Data(HASH160_LEN, 1), [i \in 1..HASH160_LEN |-> 0],
           [i \in 1..HASH160_LEN |-> OP_RETURN], [i \in 1..HASH160_LEN |-> 255]}

\* the pushed csv_blocks: 17, 128, 65535 and a value out of range
BlockPushes == {<<1, 17>>, <<2, 128, 0>>, <<3, 255, 255, 0>>, <<1, 16>>}

Scripts ==
    [p2pkh |-> {P2pkhScript(h) : h \in Hashes},
     p2sh |-> {P2shScript(Data(HASH160_LEN, 2))},
     p2wpkh |-> {P2wpkhScript(Data(HASH160_LEN, 3))},
     p2wsh |-> {P2wshScript(Data(SHA256_LEN, 4))},
     p2tr |-> {P2trScript(Data(EC_XONLY_PUBLIC_KEY_LEN, 5)),
               P2trScript(Data(EC_XONLY_PUBLIC_KEY_LEN - 2, 5) \o <<OP_1, OP_CHECKMULTISIG>>)},
     op_return |-> {<<OP_RETURN>>, <<OP_RETURN, 2, 7, 8>>},
     multisig |-> {MultisigScript(1, <<Key(1)>>), MultisigScript(2, <<Key(1), Key(2)>>),
                   MultisigScript(1, <<Data(EC_PUBLIC_KEY_UNCOMPRESSED_LEN, 4)>>),
                   <<OP_1, OP_PUSHDATA1, EC_PUBLIC_KEY_LEN>> \o Key(1)
                   \o <<OP_1, OP_CHECKMULTISIG>>},
     csv |-> {CsvScript(b) : b \in BlockPushes},
     csv_opt |-> {CsvOptScript(b) : b \in BlockPushes},
     other |-> {<<OP_0>>, <<OP_1>>, Data(WALLY_SCRIPTPUBKEY_P2PKH_LEN, 9),
                <<OP_PUSHDATA4, 255, 255, 255, 255>>}]

\* the byte values the byte at offset i of a script is replaced by: every
\* value at the opcode and length bytes of a P2PKH script, a few elsewhere
Replacements(kind, i) ==
    IF kind = "p2pkh" /\ i \in {0, 1, 2, 23, 24} THEN 0..255
    ELSE {0, 1, 20, 32, EC_PUBLIC_KEY_LEN, OP_PUSHDATA4, OP_1, OP_RETURN,
          OP_CHECKMULTISIG, 255}

\* a script as it is, cut short or grown by one byte, or with one byte replaced
Variants(kind, t) ==
    {[bytes |-> t, bytes_len |-> Len(t), kind |-> kind, pos |-> -1],
     [bytes |-> SubSeq(t, 1, Len(t) - 1), bytes_len |-> Len(t) - 1, kind |-> kind, pos |-> -2],
     [bytes |-> t \o <<0>>, bytes_len |-> Len(t) + 1, kind |-> kind, pos |-> -3]}
    \cup UNION {{[bytes |-> [t EXCEPT ![i + 1] = v], bytes_len |-> Len(t),
                   kind |-> kind, pos |-> i] : v \in Replacements(kind, i) \ {t[i + 1]}} :
                 i \in 0..(Len(t) - 1)}

GetTypeArgs ==
    {[written_null |-> FALSE, size_bits |-> w] @@ x :
        w \in SizeBits,
        x \in UNION {UNION {Variants(kind, t) : t \in Scripts[kind]} : kind \in DOMAIN Scripts}}
    \cup {[bytes |-> b, bytes_len |-> n, kind |-> "other", pos |-> -1,
           written_null |-> wn, size_bits |-> 64] :
            b \in {NULL, P2pkhScript(Data(HASH160_LEN, 1))},
            n \in {0, WALLY_SCRIPTPUBKEY_P2PKH_LEN}, wn \in BOOLEAN}

InitRead ==
    /\ pc = "start"
    /\ res = NoRes
    /\ res2 = NoRes
    /\ \/ op \in {"get_push_size", "get_push_opcode_size"} /\ args \in PushSizeArgs
       \/ op = "get_type" /\ args \in GetTypeArgs

GetPushSizeFromBytes ==
    /\ Called("get_push_size")
    /\ res' = script_get_push_size_from_bytes(args.bytes, 0, args.bytes_len, args.size_bits)

GetPushOpcodeSizeFromBytes ==
    /\ Called("get_push_opcode_size")
    /\ res' = script_get_push_opcode_size_from_bytes(args.bytes, 0, args.bytes_len,
                                                     args.size_bits)

GetType ==
    /\ Called("get_type")
    /\ res' = wally_scriptpubkey_get_type(args.bytes, args.bytes_len, args.written_null,
                                          args.size_bits)

NextRead == GetPushSizeFromBytes \/ GetPushOpcodeSizeFromBytes \/ GetType

SpecRead == InitRead /\ [][NextRead]_vars

(***************************************************************************)
(* Witness stacks                                                           *)
(***************************************************************************)
\* what a scriptSig is put together from: pushes of every header form, an
\* opcode, a push that may overrun, a header that may be cut short and a
\* push whose size wraps a 32-bit size_t
WitnessPieces ==
    {<<OP_0>>, <<1, 7>>, <<2, 1, OP_CHECKSIG>>, <<OP_PUSHDATA1, 2, 8, 9>>,
     <<OP_PUSHDATA2, 1, 0, 5>>, <<OP_PUSHDATA4, 1, 0, 0, 0, 6>>, <<OP_CHECKSIG>>, <<5, 1>>,
     <<OP_PUSHDATA1>>, <<OP_PUSHDATA4, 252, 255, 255, 255>>}

PushScripts ==
    UNION {{Concat(ps) : ps \in [1..n -> WitnessPieces]} : n \in 1..MaxPieces}

\* which allocation fails: none (0), the stack (1) or an item (2 and up)
FailAts == 0..(MaxSigs + 3)

ScriptsigToWitnessArgs ==
    {[bytes |-> b, bytes_len |-> Len(b), output_null |-> FALSE, fail_at |-> f,
      size_bits |-> z] : b \in PushScripts, f \in {0, 1, 2, 3}, z \in SizeBits}
    \cup {[bytes |-> b, bytes_len |-> n, output_null |-> o, fail_at |-> 0, size_bits |-> 64] :
            b \in {NULL, <<1, 7>>}, n \in {0, 2}, o \in BOOLEAN}

WitnessP2wpkhDerArgs ==
    {[pub_key |-> k, pub_key_len |-> Len(k), sig |-> g, sig_len |-> Len(g),
      witness_null |-> w, fail_at |-> f, size_bits |-> 64] :
        k \in {Key(1), Data(EC_PUBLIC_KEY_UNCOMPRESSED_LEN, 4), Data(32, 1)},
        g \in {Data(1, 1), Data(71, 48), Data(EC_SIGNATURE_DER_MAX_LEN + 1, 48),
               Data(EC_SIGNATURE_DER_MAX_LEN + 2, 48)},
        w \in BOOLEAN, f \in FailAts}

WitnessP2wpkhSigArgs ==
    {[pub_key |-> k, pub_key_len |-> Len(k), sig |-> g, sig_len |-> Len(g), sighash |-> h,
      witness_null |-> w, fail_at |-> f, size_bits |-> 64] :
        k \in {Key(1), Data(32, 1)},
        g \in {Data(EC_SIGNATURE_LEN, 0), Data(EC_SIGNATURE_LEN, 1),
               Data(EC_SIGNATURE_LEN, 2), Data(EC_SIGNATURE_LEN - 1, 0)},
        h \in {1, 255, 256}, w \in BOOLEAN, f \in FailAts}

\* redeem scripts: 1-of-1, 2-of-2 and 2-of-3 multisig, one that does not
\* start with OP_1..OP_16, and none
RedeemMultisigScripts ==
    {MultisigScript(1, <<Key(1)>>), MultisigScript(2, <<Key(1), Key(2)>>),
     MultisigScript(2, <<Key(1), Key(2), Key(200)>>), <<OP_0>> \o Data(36, 1), NULL}

WitnessMultisigArgs ==
    {[script |-> r, script_len |-> IF r = NULL THEN 0 ELSE Len(r), bytes |-> Concat(gs),
      bytes_len |-> Len(Concat(gs)), sighash |-> hs, sighash_len |-> Len(hs), flags |-> {},
      witness_null |-> FALSE, malloc_ok |-> m, fail_at |-> f, size_bits |-> 64] :
        r \in RedeemMultisigScripts, gs \in SigLists,
        hs \in UNION {[1..n -> {1, 256}] : n \in 1..MaxSigs}, m \in BOOLEAN, f \in FailAts}
    \cup {[script |-> MultisigScript(1, <<Key(1)>>), script_len |-> 37,
           bytes |-> Data(EC_SIGNATURE_LEN, 0) \o x, bytes_len |-> EC_SIGNATURE_LEN + Len(x),
           sighash |-> <<1>>, sighash_len |-> 1, flags |-> f, witness_null |-> w,
           malloc_ok |-> TRUE, fail_at |-> 0, size_bits |-> 64] :
            x \in {<<>>, <<0>>}, f \in {{}, {WALLY_SCRIPT_HASH160}}, w \in BOOLEAN}

InitWitness ==
    /\ \/ op = "scriptsig_to_witness" /\ args \in ScriptsigToWitnessArgs
       \/ op = "witness_p2wpkh_from_der" /\ args \in WitnessP2wpkhDerArgs
       \/ op = "witness_p2wpkh_from_sig" /\ args \in WitnessP2wpkhSigArgs
       \/ op = "witness_multisig" /\ args \in WitnessMultisigArgs
    /\ pc = "start"
    /\ res = NoRes
    /\ res2 = NoRes

ScriptsigToWitness ==
    /\ Called("scriptsig_to_witness")
    /\ res' = scriptsig_to_witness(args.bytes, args.bytes_len, args.output_null,
                                   args.fail_at, args.size_bits)

WitnessP2wpkhFromDer ==
    /\ Called("witness_p2wpkh_from_der")
    /\ res' = wally_witness_p2wpkh_from_der(args.pub_key, args.pub_key_len, args.sig,
                  args.sig_len, args.witness_null, args.fail_at, args.size_bits)

WitnessP2wpkhFromSig ==
    /\ Called("witness_p2wpkh_from_sig")
    /\ res' = wally_witness_p2wpkh_from_sig(args.pub_key, args.pub_key_len, args.sig,
                  args.sig_len, args.sighash, args.witness_null, args.fail_at,
                  args.size_bits)

WitnessMultisigFromBytes ==
    /\ Called("witness_multisig")
    /\ res' = wally_witness_multisig_from_bytes(args.script, args.script_len, args.bytes,
                  args.bytes_len, args.sighash, args.sighash_len, args.flags,
                  args.witness_null, args.malloc_ok, args.fail_at, args.size_bits)

NextWitness ==
    \/ ScriptsigToWitness \/ WitnessP2wpkhFromDer \/ WitnessP2wpkhFromSig
    \/ WitnessMultisigFromBytes

SpecWitness == InitWitness /\ [][NextWitness]_vars

(***************************************************************************)
(* Confidential commitments                                                 *)
(***************************************************************************)
WALLY_TX_ASSET_CT_EXPLICIT_PREFIX == 1
WALLY_TX_ASSET_CT_VALUE_PREFIX_A == 8
WALLY_TX_ASSET_CT_VALUE_PREFIX_B == 9
WALLY_TX_ASSET_CT_ASSET_PREFIX_A == 10
WALLY_TX_ASSET_CT_ASSET_PREFIX_B == 11
WALLY_TX_ASSET_CT_NONCE_PREFIX_A == 2
WALLY_TX_ASSET_CT_NONCE_PREFIX_B == 3
WALLY_TX_ASSET_CT_VALUE_UNBLIND_LEN == 9
WALLY_TX_ASSET_CT_LEN == 33

\* a faulty variant: an explicit value is sized like an explicit asset
get_commitment_len_tag(bytes, prefixA, prefixB) ==
    IF bytes = NULL \/ At(bytes, 0) = 0 THEN 1
    ELSE IF At(bytes, 0) = WALLY_TX_ASSET_CT_EXPLICIT_PREFIX THEN WALLY_TX_ASSET_CT_LEN
    ELSE IF At(bytes, 0) = prefixA \/ At(bytes, 0) = prefixB THEN WALLY_TX_ASSET_CT_LEN
    ELSE 0

get_commitment_len(bytes, prefixA, prefixB) ==
    IF bytes = NULL \/ At(bytes, 0) = 0 THEN 1 \* Null commitment
    ELSE IF At(bytes, 0) = WALLY_TX_ASSET_CT_EXPLICIT_PREFIX
    THEN IF prefixA = WALLY_TX_ASSET_CT_VALUE_PREFIX_A
         THEN WALLY_TX_ASSET_CT_VALUE_UNBLIND_LEN
         ELSE WALLY_TX_ASSET_CT_LEN
    ELSE IF At(bytes, 0) = prefixA \/ At(bytes, 0) = prefixB THEN WALLY_TX_ASSET_CT_LEN
    ELSE 0 \* Invalid serialization

\* [ret, v]: the value returned and the value stored to *v
confidential_commitment_varint_from_bytes(bytes, ct_value) ==
    LET len == CASE At(bytes, 0) = WALLY_TX_ASSET_CT_EXPLICIT_PREFIX
                      -> IF ct_value THEN WALLY_TX_ASSET_CT_VALUE_UNBLIND_LEN
                         ELSE WALLY_TX_ASSET_CT_LEN
                 [] At(bytes, 0) \in {WALLY_TX_ASSET_CT_VALUE_PREFIX_A,
                                      WALLY_TX_ASSET_CT_VALUE_PREFIX_B,
                                      WALLY_TX_ASSET_CT_ASSET_PREFIX_A,
                                      WALLY_TX_ASSET_CT_ASSET_PREFIX_B,
                                      WALLY_TX_ASSET_CT_NONCE_PREFIX_A,
                                      WALLY_TX_ASSET_CT_NONCE_PREFIX_B}
                      -> WALLY_TX_ASSET_CT_LEN
                 [] OTHER -> 0
    IN  IF len # 0 THEN [ret |-> len, v |-> len] ELSE [ret |-> 1, v |-> 0]

confidential_asset_length_from_bytes(bytes) ==
    get_commitment_len(bytes, WALLY_TX_ASSET_CT_ASSET_PREFIX_A, WALLY_TX_ASSET_CT_ASSET_PREFIX_B)

confidential_value_length_from_bytes(bytes) ==
    get_commitment_len(bytes, WALLY_TX_ASSET_CT_VALUE_PREFIX_A, WALLY_TX_ASSET_CT_VALUE_PREFIX_B)

confidential_nonce_length_from_bytes(bytes) ==
    get_commitment_len(bytes, WALLY_TX_ASSET_CT_NONCE_PREFIX_A, WALLY_TX_ASSET_CT_NONCE_PREFIX_B)

confidential_asset_varint_from_bytes(bytes) ==
    confidential_commitment_varint_from_bytes(bytes, FALSE)

confidential_value_varint_from_bytes(bytes) ==
    confidential_commitment_varint_from_bytes(bytes, TRUE)

confidential_nonce_varint_from_bytes(bytes) ==
    confidential_commitment_varint_from_bytes(bytes, FALSE)

\* a commitment field: any leading byte, alone or with 32 bytes behind it
CommitmentArgs ==
    {[bytes |-> <<b>> \o t] : b \in 0..255, t \in {<<>>, Data(32, 1)}}

InitCommitment ==
    /\ \/ /\ op \in {"asset_length", "value_length", "nonce_length"}
          /\ args \in CommitmentArgs \cup {[bytes |-> NULL]}
       \/ /\ op \in {"asset_varint", "value_varint", "nonce_varint"}
          /\ args \in CommitmentArgs
    /\ pc = "start"
    /\ res = NoRes
    /\ res2 = NoRes

AssetLengthFromBytes ==
    Called("asset_length") /\ res' = [ret |-> confidential_asset_length_from_bytes(args.bytes)]

ValueLengthFromBytes ==
    Called("value_length") /\ res' = [ret |-> confidential_value_length_from_bytes(args.bytes)]

NonceLengthFromBytes ==
    Called("nonce_length") /\ res' = [ret |-> confidential_nonce_length_from_bytes(args.bytes)]

AssetVarintFromBytes ==
    Called("asset_varint") /\ res' = confidential_asset_varint_from_bytes(args.bytes)

ValueVarintFromBytes ==
    Called("value_varint") /\ res' = confidential_value_varint_from_bytes(args.bytes)

NonceVarintFromBytes ==
    Called("nonce_varint") /\ res' = confidential_nonce_varint_from_bytes(args.bytes)

NextCommitment ==
    \/ AssetLengthFromBytes \/ ValueLengthFromBytes \/ NonceLengthFromBytes
    \/ AssetVarintFromBytes \/ ValueVarintFromBytes \/ NonceVarintFromBytes

SpecCommitment == InitCommitment /\ [][NextCommitment]_vars

(***************************************************************************)
(* The peg-in contract script rewrite                                       *)
(***************************************************************************)
KeyPush(seed) == <<EC_PUBLIC_KEY_LEN>> \o Key(seed)

\* what a redeem script is put together from: key pushes, opcodes, a push
\* holding an OP_ELSE byte, a two-byte-opcode key push, a key that is none
PeginPieces ==
    {KeyPush(1), KeyPush(2), <<OP_ELSE>>, <<OP_CHECKSIG>>, <<2, 1, OP_ELSE>>,
     <<OP_PUSHDATA1, EC_PUBLIC_KEY_LEN>> \o Key(1),
     <<EC_PUBLIC_KEY_LEN>> \o Data(EC_PUBLIC_KEY_LEN, 5)}

\* scripts with a push that overruns, a header cut short, a key-push opcode
\* inside a payload, and pushes whose size wraps a 32-bit size_t
OddRedeemScripts ==
    {<<5, 1>>, KeyPush(1) \o <<5, 1>>, KeyPush(1) \o <<OP_PUSHDATA1>>,
     <<1, EC_PUBLIC_KEY_LEN, OP_ELSE>> \o KeyPush(1),
     <<OP_PUSHDATA4, 252, 255, 255, 255>> \o KeyPush(1) \o <<OP_ELSE>>,
     <<OP_PUSHDATA4, 255, 255, 255, 255>>, <<OP_PUSHDATA4, 251, 255, 255, 255>>,
     KeyPush(2) \o <<OP_PUSHDATA4, 251, 255, 255, 255>>}

RedeemScripts ==
    UNION {{Concat(ps) : ps \in [1..n -> PeginPieces]} : n \in 1..MaxPieces}
    \cup OddRedeemScripts

PeginArgs ==
    {[redeem_script |-> r, redeem_script_len |-> Len(r), script |-> Data(4, 9),
      script_len |-> 4, flags |-> {}, len |-> Len(r), ec_ok |-> e, size_bits |-> b] :
        r \in RedeemScripts, e \in BOOLEAN, b \in SizeBits}
    \cup {[redeem_script |-> r, redeem_script_len |-> n, script |-> c, script_len |-> cl,
           flags |-> f, len |-> l, ec_ok |-> TRUE, size_bits |-> 64] :
            r \in {NULL, KeyPush(1)}, n \in {0, EC_PUBLIC_KEY_LEN + 1},
            c \in {NULL, Data(4, 9)}, cl \in {0, 4}, f \in {{}, {WALLY_SCRIPT_HASH160}},
            l \in {EC_PUBLIC_KEY_LEN, EC_PUBLIC_KEY_LEN + 1, EC_PUBLIC_KEY_LEN + 2}}

InitPegin ==
    /\ op = "pegin" /\ args \in PeginArgs
    /\ pc = "start"
    /\ res = NoRes
    /\ res2 = NoRes

PeginContractScriptFromBytes ==
    /\ Called("pegin")
    /\ res' = wally_elements_pegin_contract_script_from_bytes(
                  args.redeem_script, args.redeem_script_len, args.script, args.script_len,
                  args.flags, FreshBuf(args.len), args.len, args.ec_ok, args.size_bits)
              @@ [scratch |-> pegin_contract_script_tweak(
                                  args.redeem_script, args.redeem_script_len, args.script,
                                  args.script_len, args.flags, args.len, args.ec_ok,
                                  args.size_bits)]

NextPegin == PeginContractScriptFromBytes

SpecPegin == InitPegin /\ [][NextPegin]_vars

(***************************************************************************)
(* Claims about the integer codecs                                          *)
(***************************************************************************)
\* the length the varint format prescribes, read off the limbs
VarintFormLength(v) ==
    IF v[4] = 0 /\ v[3] = 0 /\ v[2] = 0 /\ v[1] <= 252 THEN 1
    ELSE IF v[4] = 0 /\ v[3] = 0 /\ v[2] = 0 THEN 3
    ELSE IF v[4] = 0 /\ v[3] = 0 THEN 5
    ELSE 9

\* C4: varint_to_bytes(v) writes exactly varint_get_length(v) bytes, that
\* length is 1 for v <= 252, 3 for v <= 0xFFFF, 5 for v <= 0xFFFFFFFF and 9
\* otherwise, and varint_from_bytes on the written bytes returns v and the
\* same size.
C4_VarintRoundTrip ==
    op = "varint" =>
        /\ pc \in {"called", "done"} =>
              /\ res.n = varint_get_length(args.v)
              /\ res.n = VarintFormLength(args.v)
        /\ pc = "done" => res2.v = args.v /\ res2.size = res.n

\* 65536 is the first value of the five-byte form and is encoded and decoded
C4_Witness ==
    op = "varint" /\ pc = "done" /\ args.v = <<0, 1, 0, 0>> /\ res.n = 5

\* C5: for every signed v with |v| < 2^31, scriptint_from_bytes on the length
\* byte scriptint_get_length(v) followed by the bytes scriptint_to_bytes(v)
\* wrote succeeds and returns exactly v.
C5_ScriptintRoundTrip ==
    (op = "scriptint" /\ pc = "done") =>
        res2.ret = WALLY_OK /\ res2.value = args.v

\* a negative value whose magnitude needs the extra sign byte has been decoded
C5_Witness ==
    op = "scriptint" /\ pc = "done" /\ args.v = -128 /\ res.buf = <<2, 128, 128>>

\* the fewest bytes that hold the magnitude a (a < 2^31)
MagnitudeLength(a) ==
    IF a = 0 THEN 0 ELSE IF a < 256 THEN 1 ELSE IF a < 65536 THEN 2
    ELSE IF a < 16777216 THEN 3 ELSE 4

LeMagnitude(a) == [i \in 1..MagnitudeLength(a) |-> (a \div Pow256(i - 1)) % 256]

\* C6: for every v with |v| < 2^31, scriptint_to_bytes writes exactly
\* scriptint_get_length(v) bytes: the little-endian magnitude in the fewest
\* bytes, one extra byte (0x00 for v > 0, 0x80 for v < 0) appended exactly
\* when the top bit of the magnitude's last byte is set, otherwise the sign
\* in the top bit of the last byte; 0 gives no bytes, 128 gives [0x80,0x00]
\* and -128 gives [0x80,0x80].
C6_ScriptintMinimal ==
    (op = "scriptint" /\ pc \in {"called", "done"}) =>
        LET v == args.v
            m == LeMagnitude(Abs(v))
            k == Len(m)
            top == k > 0 /\ m[k] >= 128
        IN  /\ res.n = scriptint_get_length(v)
            /\ Len(res.bytes) = res.n
            /\ res.n = IF top THEN k + 1 ELSE k
            /\ top => res.bytes = m \o <<IF v < 0 THEN 128 ELSE 0>>
            /\ (~top /\ v >= 0) => res.bytes = m
            /\ (~top /\ v < 0) => res.bytes = [m EXCEPT ![k] = @ + 128]
            /\ v = 0 => res.bytes = <<>>
            /\ v = 128 => res.bytes = <<128, 0>>
            /\ v = -128 => res.bytes = <<128, 128>>

\* a negative value with the extra byte and one without have been encoded
C6_Witness ==
    op = "scriptint" /\ pc = "called" /\ args.v = -32768 /\ res.n = 3

(***************************************************************************)
(* Claims about the builders' sizing contract                               *)
(***************************************************************************)
\* a capacity that is enough for every script the inputs above can ask for
AmpleLen(o, a) == IF o = "push" THEN a.bytes_len + 8 ELSE 300

\* the call with an ample buffer
Ample(o, a) == Build(o, a, AmpleLen(o, a))

\* the inputs are valid: with an ample buffer the builder succeeds
ValidInput(o, a) == Ample(o, a).ret = WALLY_OK /\ Ample(o, a).written <= AmpleLen(o, a)

\* the builders that answer a zero-length buffer with the required length
ProbeWithoutBuffer == {"csv", "csv_opt", "p2tr", "scriptsig_multisig"}

C2_NoPartialWrite ==
    (/\ op \in Builders /\ pc = "called" /\ ValidInput(op, args)
     /\ args.len > 0 /\ args.len < Ample(op, args).written) =>
        /\ res.ret = WALLY_OK
        /\ res.written = Ample(op, args).written
        /\ res.out = FreshBuf(args.len)

\* C3: whenever a call with an undersized buffer returns success and reports
\* a length L, the same call with a buffer of at least L bytes returns success
\* and writes exactly L bytes; the success or WALLY_EINVAL outcome does not
\* depend on the capacity.
C3_ProbeThenFill ==
    (op \in Builders /\ pc = "refilled") =>
        /\ res2.ret = WALLY_OK
        /\ res2.written = res.written
        /\ res2.out.wmax = res.written
        /\ (res.ret = WALLY_EINVAL) <=> (res2.ret = WALLY_EINVAL)

(***************************************************************************)
(* Claims about the push codec                                              *)
(***************************************************************************)
\* the header the script format prescribes for a payload of n bytes
PushFormHeader(n) ==
    IF n < 76 THEN <<n>>
    ELSE IF n < 256 THEN <<76, n>>
    ELSE IF n < 65536 THEN <<77, n % 256, n \div 256>>
    ELSE <<78, n % 256, (n \div 256) % 256, (n \div 65536) % 256, n \div 16777216>>

\* r is the result of a push of a.bytes that fitted its buffer
PushWritten(a, r) ==
    LET n == a.bytes_len
        h == r.written - n
    IN  /\ h = Len(PushFormHeader(n))
        /\ SubSeq(r.out.mem, 1, h) = PushFormHeader(n)
        /\ SubSeq(r.out.mem, h + 1, h + n) = a.bytes
        /\ r.out.wmax = r.written

\* C7: for every payload length n, wally_script_push_from_bytes without hash
\* flags emits a header of 1 byte when n < 76, 2 bytes (OP_PUSHDATA1) when
\* n < 256, 3 bytes (OP_PUSHDATA2, little-endian) when n < 65536 and 5 bytes
\* (OP_PUSHDATA4) otherwise, followed by the payload unchanged, and
\* get_push_size on that output returns that header length and the payload
\* length n.
C7_PushRoundTrip ==
    (op = "push" /\ args.flags = {} /\ args.bytes # NULL) =>
        /\ (pc \in {"called", "decoded"} /\ res.ret = WALLY_OK /\ res.written <= args.len)
              => PushWritten(args, res)
        /\ pc = "refilled" => res2.ret = WALLY_OK /\ PushWritten(args, res2)
        /\ pc = "decoded" =>
              /\ res2.opcode.ret = WALLY_OK
              /\ U64ToInt(res2.opcode.size_out) = Len(PushFormHeader(args.bytes_len))
              /\ res2.push.ret = WALLY_OK
              /\ U64ToInt(res2.push.size_out) = args.bytes_len

\* a 65536-byte payload was pushed with OP_PUSHDATA4 and read back
C7_Witness ==
    /\ op = "push" /\ pc = "decoded" /\ args.bytes_len = 65536
    /\ res.out.mem[1] = OP_PUSHDATA4

(***************************************************************************)
(* Claims about the readers                                                 *)
(***************************************************************************)
\* the header length the first byte of a push announces; 0 when it is no push
PushFormLength(b0) ==
    CASE b0 < 76 -> 1
      [] b0 = OP_PUSHDATA1 -> 2
      [] b0 = OP_PUSHDATA2 -> 3
      [] b0 = OP_PUSHDATA4 -> 5
      [] OTHER -> 0

\* the payload length a buffer holding a whole push header declares
DeclaredLength(bytes) ==
    IF bytes[1] < 76 THEN U64(bytes[1])
    ELSE U64FromLeBytes(SubSeq(bytes, 2, PushFormLength(bytes[1])))

\* C8: get_push_size returns WALLY_EINVAL when the buffer is empty, when the
\* first byte is not a push opcode, when the buffer is shorter than the opcode
\* header, or when header length plus declared payload length exceeds
\* bytes_len; whenever it succeeds, header length + payload length <= bytes_len.
C8_PushSizeBoundsSafe ==
    (op \in {"get_push_size", "get_push_opcode_size"} /\ pc = "called"
     /\ args.bytes # NULL) =>
        LET n == args.bytes_len
            h == IF n = 0 THEN 0 ELSE PushFormLength(args.bytes[1])
            refused == \/ n = 0
                       \/ h = 0
                       \/ n < h
                       \/ U64Lt(U64(n), U64AddSmall(DeclaredLength(args.bytes), h))
        IN  /\ refused => res.ret = WALLY_EINVAL
            /\ res.ret = WALLY_OK =>
                  /\ U64Le(U64AddSmall(DeclaredLength(args.bytes), h), U64(n))
                  /\ res.size_out = IF op = "get_push_size"
                                    THEN DeclaredLength(args.bytes) ELSE U64(h)

\* the ten type tags
ScriptTypes ==
    {WALLY_SCRIPT_TYPE_UNKNOWN, WALLY_SCRIPT_TYPE_OP_RETURN, WALLY_SCRIPT_TYPE_P2PKH,
     WALLY_SCRIPT_TYPE_P2SH, WALLY_SCRIPT_TYPE_P2WPKH, WALLY_SCRIPT_TYPE_P2WSH,
     WALLY_SCRIPT_TYPE_MULTISIG, WALLY_SCRIPT_TYPE_P2TR, WALLY_SCRIPT_TYPE_CSV2OF2_1,
     WALLY_SCRIPT_TYPE_CSV2OF2_1_OPT}

\* C9: wally_scriptpubkey_get_type returns WALLY_EINVAL only for a null or
\* empty buffer or a null out-parameter; for every non-empty buffer it returns
\* success with one of the ten type tags; on WALLY_EINVAL the tag it reports
\* is Unknown.
C9_ClassifierTotal ==
    (op = "get_type" /\ pc = "called") =>
        /\ res.ret \in {WALLY_OK, WALLY_EINVAL}
        /\ (res.ret = WALLY_EINVAL) <=>
              (args.bytes = NULL \/ args.bytes_len = 0 \/ args.written_null)
        /\ res.ret = WALLY_OK => res.written \in ScriptTypes
        /\ (res.ret = WALLY_EINVAL /\ ~args.written_null) =>
              res.written = WALLY_SCRIPT_TYPE_UNKNOWN

\* a non-empty buffer that matches no pattern was classified as Unknown
C9_Witness ==
    /\ op = "get_type" /\ pc = "called"
    /\ args.bytes # NULL /\ args.bytes_len = WALLY_SCRIPTPUBKEY_P2PKH_LEN
    /\ res.ret = WALLY_OK /\ res.written = WALLY_SCRIPT_TYPE_UNKNOWN

\* C10 as stated: get_type on any 25-byte buffer OP_DUP OP_HASH160 0x14
\* <20 bytes> OP_EQUALVERIFY OP_CHECKSIG returns P2PKH, and replacing any
\* single one of its opcode bytes (offsets 0, 1, 23, 24) by any different byte
\* value makes get_type return Unknown.
C10_P2pkhRecognition ==
    (op = "get_type" /\ pc = "called" /\ args.kind = "p2pkh") =>
        /\ args.pos = -1 =>
              res.ret = WALLY_OK /\ res.written = WALLY_SCRIPT_TYPE_P2PKH
        /\ args.pos \in {0, 1, 23, 24} =>
              res.ret = WALLY_OK /\ res.written = WALLY_SCRIPT_TYPE_UNKNOWN

\* C10 as amended: get_type on any such buffer returns P2PKH; replacing one of
\* the bytes at offsets 0, 1, 23, 24 by a different value makes get_type
\* return Unknown, except that offset 0 replaced by OP_RETURN makes it return
\* the OP_RETURN type.
C10_P2pkhRecognitionAmended ==
    (op = "get_type" /\ pc = "called" /\ args.kind = "p2pkh") =>
        /\ args.pos = -1 =>
              res.ret = WALLY_OK /\ res.written = WALLY_SCRIPT_TYPE_P2PKH
        /\ args.pos \in {0, 1, 23, 24} =>
              /\ res.ret = WALLY_OK
              /\ res.written = IF args.pos = 0 /\ At(args.bytes, 0) = OP_RETURN
                               THEN WALLY_SCRIPT_TYPE_OP_RETURN
                               ELSE WALLY_SCRIPT_TYPE_UNKNOWN

\* a P2PKH script whose OP_CHECKSIG was replaced was classified as Unknown
C10_Witness ==
    /\ op = "get_type" /\ pc = "called" /\ args.kind = "p2pkh" /\ args.pos = 24
    /\ At(args.bytes, 24) # OP_CHECKSIG
    /\ res.ret = WALLY_OK /\ res.written = WALLY_SCRIPT_TYPE_UNKNOWN

(***************************************************************************)
(* Claims about building and then reading a script                          *)
(***************************************************************************)
\* C11: for every pair of 33-byte keys and every delay d in [17, 65535], the
\* script built by wally_scriptpubkey_csv_2of2_then_1_from_bytes is classified
\* as CSV2OF2_1 and the script built by the _opt builder as CSV2OF2_1_OPT, and
\* wally_scriptpubkey_csv_blocks_from_csv_2of2_then_1 on either returns d.
C11_CsvRoundTrip ==
    (/\ op \in {"csv", "csv_opt"} /\ pc = "classified"
     /\ args.bytes_len = 2 * EC_PUBLIC_KEY_LEN /\ args.flags = {}
     /\ args.csv_blocks >= 17 /\ args.csv_blocks <= 65535) =>
        /\ res2.type.ret = WALLY_OK
        /\ res2.type.written = IF op = "csv" THEN WALLY_SCRIPT_TYPE_CSV2OF2_1
                               ELSE WALLY_SCRIPT_TYPE_CSV2OF2_1_OPT
        /\ res2.csv.ret = WALLY_OK
        /\ res2.csv.value_out = args.csv_blocks

\* a CSV script with the three-byte delay 65535 was built and read back
C11_Witness ==
    /\ op = "csv" /\ pc = "classified" /\ args.csv_blocks = 65535
    /\ res.written = 81 /\ res2.csv.ret = WALLY_OK

\* lexicographic byte order, written out from its definition
LexLeq(a, b) ==
    \/ a = b
    \/ \E k \in 1..Len(a) : /\ \A j \in 1..(k - 1) : a[j] = b[j]
                            /\ a[k] < b[k]

Perms(n) == {p \in [1..n -> 1..n] : \A i, j \in 1..n : p[i] = p[j] => i = j}

\* key i (from 1) of a multisig script
EmittedKey(script, i) ==
    SubSeq(script, 2 + (i - 1) * (EC_PUBLIC_KEY_LEN + 1) + 1, 1 + i * (EC_PUBLIC_KEY_LEN + 1))

\* C12: with the sort flag the multisig builder returns the same result and
\* the same output bytes for every permutation of the caller's keys, and the
\* keys it emits are the caller's keys in ascending lexicographic byte order;
\* without the flag the keys are emitted in the caller's order
C12_SortedMultisigOrderIndependent ==
    (/\ op = "multisig" /\ pc = "called"
     /\ args.bytes # NULL /\ args.bytes_len % EC_PUBLIC_KEY_LEN = 0
     /\ args.bytes_len \div EC_PUBLIC_KEY_LEN \in 1..15)
    => LET n == args.bytes_len \div EC_PUBLIC_KEY_LEN
           keys == [i \in 1..n |-> Item(args.bytes, i - 1, EC_PUBLIC_KEY_LEN)]
           built == res.ret = WALLY_OK /\ res.written <= args.len
       IN  /\ args.flags = {WALLY_SCRIPT_MULTISIG_SORTED}
                => /\ \A p \in Perms(n) :
                        CallMultisig([args EXCEPT !.bytes = Concat([i \in 1..n |-> keys[p[i]]])],
                                     args.len) = res
                   /\ built
                        => /\ \A i \in 1..(n - 1) :
                                LexLeq(EmittedKey(res.out.mem, i), EmittedKey(res.out.mem, i + 1))
                           /\ \E p \in Perms(n) :
                                \A i \in 1..n : EmittedKey(res.out.mem, i) = keys[p[i]]
           /\ (args.flags = {} /\ built)
                => \A i \in 1..n : EmittedKey(res.out.mem, i) = keys[i]

\* three keys given in descending order are sorted into a 2-of-3 script
C12_Witness ==
    /\ op = "multisig" /\ pc = "called"
    /\ args.flags = {WALLY_SCRIPT_MULTISIG_SORTED} /\ args.threshold = 2
    /\ args.bytes = Key(1) \o Key(200) \o Key(2)
    /\ res.ret = WALLY_OK /\ res.written = 105 /\ res.written <= args.len
    /\ EmittedKey(res.out.mem, 1) = Key(2) /\ EmittedKey(res.out.mem, 3) = Key(1)

(***************************************************************************)
(* Claims about the peg-in rewrite                                          *)
(***************************************************************************)
\* how far the opcode at offset off reaches: a push that fits in the script
\* reaches over its header and payload, anything else is one byte
OpcodeSpan(script, off) ==
    LET b == script[off + 1]
        left == Len(script) - off
        span == CASE b < OP_PUSHDATA1 -> 1 + b
                  [] b = OP_PUSHDATA1 /\ left >= 2 -> 2 + script[off + 2]
                  [] b = OP_PUSHDATA2 /\ left >= 3 -> 3 + script[off + 2] + 256 * script[off + 3]
                  [] b = OP_PUSHDATA4 /\ left >= 5 /\ script[off + 4] = 0 /\ script[off + 5] = 0
                       -> 5 + script[off + 2] + 256 * script[off + 3]
                  [] OTHER -> 1
    IN  IF span <= left THEN span ELSE 1

\* the offsets of the payload bytes of the direct key pushes that come
\* before the first OP_ELSE opcode, reading the script from offset off
RECURSIVE KeyPayloadBeforeElse(_, _)
KeyPayloadBeforeElse(script, off) ==
    IF off >= Len(script) \/ script[off + 1] = OP_ELSE THEN {}
    ELSE (IF script[off + 1] = EC_PUBLIC_KEY_LEN /\ OpcodeSpan(script, off) = 1 + EC_PUBLIC_KEY_LEN
          THEN (off + 1)..(off + EC_PUBLIC_KEY_LEN) ELSE {})
         \cup KeyPayloadBeforeElse(script, off + OpcodeSpan(script, off))

\* C13: when the peg-in rewrite succeeds, written is the redeem script's
\* length, every byte of the output has been stored, and each output byte
\* equals the input byte at its offset unless it is a payload byte of a
\* direct key push before the first OP_ELSE opcode
C13_PeginFramePreserving ==
    (op = "pegin" /\ pc = "called" /\ res.ret = WALLY_OK)
    => /\ res.written = args.redeem_script_len
       /\ res.out.wmax = args.redeem_script_len
       /\ \A i \in 0..(args.redeem_script_len - 1) :
             i \notin KeyPayloadBeforeElse(args.redeem_script, 0)
                => At(res.out.mem, i) = At(args.redeem_script, i)

\* a key before OP_ELSE is rewritten and the same key after it is not
C13_Witness ==
    /\ op = "pegin" /\ pc = "called" /\ res.ret = WALLY_OK
    /\ args.redeem_script = KeyPush(1) \o <<OP_ELSE>> \o KeyPush(1)
    /\ SubSeq(res.out.mem, 2, 34) # Key(1)
    /\ SubSeq(res.out.mem, 37, 69) = Key(1)

(***************************************************************************)
(* Claims about confidential commitments                                    *)
(***************************************************************************)
\* the two blinded prefix bytes of each field type
BlindedPrefixes(type) ==
    CASE type = "asset" -> {10, 11}
      [] type = "value" -> {8, 9}
      [] type = "nonce" -> {2, 3}

\* the field type an operation reads
FieldType(o) ==
    CASE o \in {"asset_length", "asset_varint"} -> "asset"
      [] o \in {"value_length", "value_varint"} -> "value"
      [] o \in {"nonce_length", "nonce_varint"} -> "nonce"

\* C14: for every field type and leading byte the length function returns 1
\* for a zero byte, 9 (value) or 33 (asset, nonce) for the explicit marker,
\* 33 for the type's own two blinded prefixes and 0 for every other byte
C14_CommitmentLength ==
    (op \in {"asset_length", "value_length", "nonce_length"} /\ pc = "called"
     /\ args.bytes # NULL)
    => LET b == args.bytes[1]
       IN  res.ret = CASE b = 0 -> 1
                       [] b = 1 -> IF FieldType(op) = "value" THEN 9 ELSE 33
                       [] b \in BlindedPrefixes(FieldType(op)) -> 33
                       [] OTHER -> 0

\* the explicit marker on a value field
C14_Witness ==
    /\ op = "value_length" /\ pc = "called"
    /\ args.bytes[1] = 1 /\ res.ret = 9

\* the length function of the field type an operation reads
LengthFromBytes(type, bytes) ==
    CASE type = "asset" -> confidential_asset_length_from_bytes(bytes)
      [] type = "value" -> confidential_value_length_from_bytes(bytes)
      [] type = "nonce" -> confidential_nonce_length_from_bytes(bytes)

\* C15: for every field type and leading byte the varint accessor returns
\* the length that the type's length function returns for the same byte
C15_VarintAgreesWithLength ==
    (op \in {"asset_varint", "value_varint", "nonce_varint"} /\ pc = "called")
    => res.ret = LengthFromBytes(FieldType(op), args.bytes)

(***************************************************************************)
(* Claims about witness stacks                                              *)
(***************************************************************************)
\* the payload length the push header at offset off declares, or -1 when
\* the byte is no push opcode or its header does not fit in the script
DeclaredPayload(script, off) ==
    LET b == script[off + 1]
        left == Len(script) - off
    IN  CASE b < OP_PUSHDATA1 -> b
          [] b = OP_PUSHDATA1 /\ left >= 2 -> script[off + 2]
          [] b = OP_PUSHDATA2 /\ left >= 3 -> script[off + 2] + 256 * script[off + 3]
          [] b = OP_PUSHDATA4 /\ left >= 5
               -> IF script[off + 4] = 0 /\ script[off + 5] = 0
                  THEN script[off + 2] + 256 * script[off + 3]
                  ELSE Limb \* more than any script here holds
          [] OTHER -> -1

HeaderLength(b) ==
    CASE b < OP_PUSHDATA1 -> 1 [] b = OP_PUSHDATA1 -> 2 [] b = OP_PUSHDATA2 -> 3 [] OTHER -> 5

\* the script from offset off read as pushes that end at the script's end:
\* [ok, items], items the payloads in order when ok
RECURSIVE Payloads(_, _)
Payloads(script, off) ==
    IF off = Len(script) THEN [ok |-> TRUE, items |-> <<>>]
    ELSE LET n == DeclaredPayload(script, off)
             from == off + HeaderLength(script[off + 1])
         IN  IF n < 0 \/ from + n > Len(script) THEN [ok |-> FALSE, items |-> <<>>]
             ELSE LET rest == Payloads(script, from + n)
                  IN  [ok |-> rest.ok,
                       items |-> IF rest.ok THEN <<SubSeq(script, from + 1, from + n)>> \o rest.items
                                 ELSE <<>>]

\* C16: on a non-empty buffer, with collaborators that do not fail,
\* scriptsig_to_witness succeeds exactly when the buffer is a sequence of
\* well-formed pushes ending at its end; a success hands back one item per
\* push, in order, equal to the push's payload; any failure hands back null
\* and leaves no stack allocated
C16_PushOnlyDecomposition ==
    (op = "scriptsig_to_witness" /\ pc = "called")
    => /\ (args.bytes # NULL /\ args.bytes_len > 0 /\ ~args.output_null /\ args.fail_at = 0)
            => (res.ret = WALLY_OK <=> Payloads(args.bytes, 0).ok)
       /\ res.ret = WALLY_OK
            => /\ Payloads(args.bytes, 0).ok
               /\ ~res.null /\ res.items = Payloads(args.bytes, 0).items
       /\ res.ret # WALLY_OK => res.null /\ res.items = <<>> /\ res.live = 0

\* three pushes with one-, two- and three-byte headers are taken apart
C16_Witness ==
    /\ op = "scriptsig_to_witness" /\ pc = "called" /\ res.ret = WALLY_OK
    /\ args.bytes = <<2, 1, OP_CHECKSIG, OP_PUSHDATA1, 2, 8, 9, OP_PUSHDATA2, 1, 0, 5>>
    /\ res.items = <<(<<1, OP_CHECKSIG>>), (<<8, 9>>), (<<5>>)>>

\* a later push fails after an item was added: nothing is handed back
C16_WitnessFailure ==
    /\ op = "scriptsig_to_witness" /\ pc = "called" /\ res.ret = WALLY_EINVAL
    /\ args.bytes = <<1, 7, OP_CHECKSIG>> /\ res.null

\* C17: a successful wally_witness_p2wpkh_from_der or _from_sig hands back
\* exactly two items, the signature (DER with its sighash byte) and then the
\* public key; a successful wally_witness_multisig_from_bytes with n
\* signatures hands back n + 2 items: an empty one, the n DER signatures
\* with their sighash bytes in input order, and the redeem script
C17_WitnessShapes ==
    (pc = "called" /\ res.ret = WALLY_OK)
    => /\ op = "witness_p2wpkh_from_der"
            => ~res.null /\ res.items = <<args.sig, args.pub_key>>
       /\ op = "witness_p2wpkh_from_sig"
            => /\ ~res.null
               /\ res.items = <<wally_ec_sig_to_der(args.sig, args.sig_len).der
                                 \o <<args.sighash>>, args.pub_key>>
       /\ op = "witness_multisig"
            => LET n == args.bytes_len \div EC_SIGNATURE_LEN
               IN  /\ ~res.null /\ Len(res.items) = n + 2
                   /\ res.items[1] = <<>>
                   /\ \A i \in 1..n :
                         res.items[i + 1] =
                             wally_ec_sig_to_der(Item(args.bytes, i - 1, EC_SIGNATURE_LEN),
                                                 EC_SIGNATURE_LEN).der \o <<args.sighash[i]>>
                   /\ res.items[n + 2] = args.script

\* a 2-of-3 redeem script with two signatures gives four items
C17_Witness ==
    /\ op = "witness_multisig" /\ pc = "called" /\ res.ret = WALLY_OK
    /\ args.script = MultisigScript(2, <<Key(1), Key(2), Key(200)>>)
    /\ args.bytes_len = 2 * EC_SIGNATURE_LEN
    /\ Len(res.items) = 4 /\ res.items[4] = args.script

\* a compact signature and a key give two items
C17_WitnessP2wpkh ==
    /\ op = "witness_p2wpkh_from_sig" /\ pc = "called" /\ res.ret = WALLY_OK
    /\ Len(res.items) = 2 /\ res.items[2] = Key(1)

(***************************************************************************)
(* Claims about failed calls                                                *)
(***************************************************************************)
\* C18: whenever a builder returns an error code, written is 0 and no byte
\* of the caller's output buffer has been stored to
C18_NoPartialResultOnFailure ==
    (op \in Builders /\ pc = "called" /\ res.ret # WALLY_OK)
    => res.written = 0 /\ res.out = FreshBuf(args.len)

(***************************************************************************)
(* Claims about the templates the classifier matches                        *)
(***************************************************************************)
\* the value a script-integer payload stands for: little-endian magnitude,
\* the top bit of the last byte its sign
DelayValue(payload) ==
    LET n == Len(payload)
        magnitude == IF n = 1 THEN payload[1] % 128
                     ELSE IF n = 2 THEN payload[1] + 256 * (payload[2] % 128)
                     ELSE payload[1] + 256 * payload[2] + 65536 * (payload[3] % 128)
    IN  IF payload[n] >= 128 THEN 0 - magnitude ELSE magnitude

\* template A with a delay payload of n bytes, and nothing else
IsCsvTemplateA(bytes, bytes_len, n) ==
    /\ bytes_len = 39 + 1 + n + 38
    /\ SubSeq(bytes, 1, 4) = <<OP_DEPTH, OP_1SUB, OP_IF, 33>>
    /\ SubSeq(bytes, 38, 39) = <<OP_CHECKSIGVERIFY, OP_ELSE>>
    /\ bytes[40] = n
    /\ DelayValue(SubSeq(bytes, 41, 40 + n)) \in 17..65535
    /\ SubSeq(bytes, 41 + n, 44 + n) = <<OP_CHECKSEQUENCEVERIFY, OP_DROP, OP_ENDIF, 33>>
    /\ bytes[bytes_len] = OP_CHECKSIG

\* C19: get_type answers Csv2of2Then1 only for a buffer that is exactly
\* OP_DEPTH OP_1SUB OP_IF <push 33> OP_CHECKSIGVERIFY OP_ELSE <delay>
\* OP_CHECKSEQUENCEVERIFY OP_DROP OP_ENDIF <push 33> OP_CHECKSIG, the delay
\* decoding to 17..65535 and OP_CHECKSIG being the buffer's last byte
C19_CsvTemplateExact ==
    (/\ op = "get_type" /\ pc = "called"
     /\ res.ret = WALLY_OK /\ res.written = WALLY_SCRIPT_TYPE_CSV2OF2_1)
    => \E n \in 1..3 : IsCsvTemplateA(args.bytes, args.bytes_len, n)

\* C20: get_type answers Multisig exactly when the first byte is
\* OP_1..OP_16, the last byte is OP_CHECKMULTISIG, the byte before it is
\* OP_1..OP_16 standing for n, and the bytes in between are exactly n
\* well-formed pushes of 33 or 65 bytes each, with no byte left over
C20_MultisigRecognition ==
    (/\ op = "get_type" /\ pc = "called"
     /\ args.bytes # NULL /\ args.bytes_len > 0 /\ ~args.written_null)
    => LET len == args.bytes_len
           keys == Payloads(SubSeq(args.bytes, 2, len - 2), 0)
       IN  (res.ret = WALLY_OK /\ res.written = WALLY_SCRIPT_TYPE_MULTISIG)
           <=> /\ len >= 3
               /\ args.bytes[1] \in 81..96
               /\ args.bytes[len] = OP_CHECKMULTISIG
               /\ args.bytes[len - 1] \in 81..96
               /\ keys.ok
               /\ Len(keys.items) = args.bytes[len - 1] - 80
               /\ \A i \in 1..Len(keys.items) : Len(keys.items[i]) \in {33, 65}

\* a 2-of-2 script of two compressed keys is a multisig script
C20_Witness ==
    /\ op = "get_type" /\ pc = "called"
    /\ args.bytes = MultisigScript(2, <<Key(1), Key(2)>>)
    /\ res.ret = WALLY_OK /\ res.written = WALLY_SCRIPT_TYPE_MULTISIG

(***************************************************************************)
(* Claims about the witness program builder                                 *)
(***************************************************************************)
\* the program bytes of a witness program script stored at offset off:
\* the version opcode, a push opcode and then the program
EmittedProgram(mem, off, n) == SubSeq(mem, off + 3, off + 2 + n)

WitnessProgramCalled == op = "witness_program" /\ pc = "called"

WitnessProgramFilled ==
    WitnessProgramCalled /\ res.ret = WALLY_OK /\ res.written <= args.len

\* C21: the witness program builder with version 0 succeeds only for a
\* program of exactly 20 or 32 bytes and emits those bytes unhashed, whatever
\* the flags; with version 1..16 and no hashing flag it succeeds only for
\* programs of 2 to 40 bytes; a version above 16 is WALLY_EINVAL
C21_WitnessProgramLengths ==
    /\ (WitnessProgramCalled /\ res.ret = WALLY_OK /\ args.version = 0)
         => args.bytes_len \in {20, 32}
    /\ (WitnessProgramFilled /\ args.version = 0)
         => EmittedProgram(res.out.mem, IF WALLY_SCRIPT_AS_PUSH \in args.flags THEN 1 ELSE 0,
                           args.bytes_len) = args.bytes
    /\ (/\ WitnessProgramCalled /\ res.ret = WALLY_OK /\ args.version \in 1..16
        /\ args.flags \cap {WALLY_SCRIPT_HASH160, WALLY_SCRIPT_SHA256} = {})
         => args.bytes_len \in 2..40
    /\ (WitnessProgramCalled /\ args.version > 16) => res.ret = WALLY_EINVAL

\* C21 as the code has it: the length rules bind when no hashing flag is
\* given (version 0: exactly 20 or 32 bytes, emitted as they are; version
\* 1..16: 2 to 40 bytes); with a hashing flag any version up to 16 succeeds
\* only for a non-empty program and emits its hash; above 16 is WALLY_EINVAL
C21_WitnessProgramLengthsAmended ==
    LET hashed == args.flags \cap {WALLY_SCRIPT_HASH160, WALLY_SCRIPT_SHA256} # {}
        off == IF WALLY_SCRIPT_AS_PUSH \in args.flags THEN 1 ELSE 0
    IN  /\ (WitnessProgramCalled /\ res.ret = WALLY_OK /\ args.version = 0 /\ ~hashed)
             => args.bytes_len \in {20, 32}
        /\ (WitnessProgramFilled /\ args.version = 0 /\ ~hashed)
             => EmittedProgram(res.out.mem, off, args.bytes_len) = args.bytes
        /\ (WitnessProgramCalled /\ res.ret = WALLY_OK /\ args.version \in 1..16 /\ ~hashed)
             => args.bytes_len \in 2..40
        /\ (WitnessProgramCalled /\ res.ret = WALLY_OK /\ hashed) => args.bytes_len > 0
        /\ (WitnessProgramFilled /\ WALLY_SCRIPT_HASH160 \in args.flags)
             => EmittedProgram(res.out.mem, off, 20) = wally_hash160(args.bytes, args.bytes_len)
        /\ (WitnessProgramFilled /\ WALLY_SCRIPT_SHA256 \in args.flags)
             => EmittedProgram(res.out.mem, off, 32) = wally_sha256(args.bytes, args.bytes_len)
        /\ (WitnessProgramCalled /\ args.version > 16) => res.ret = WALLY_EINVAL

\* a two-byte program with version 0 is hashed into a 22-byte script
C21_Witness ==
    /\ WitnessProgramFilled /\ args.version = 0 /\ args.bytes_len = 2
    /\ args.flags = {WALLY_SCRIPT_HASH160} /\ res.written = 22

\* a 32-byte program with version 0 and no flag is emitted as it is
C21_WitnessUnhashed ==
    /\ WitnessProgramFilled /\ args.version = 0 /\ args.bytes_len = 32
    /\ args.flags = {} /\ res.written = 34
    /\ EmittedProgram(res.out.mem, 0, 32) = args.bytes

(***************************************************************************)
(* Claims about the scratch buffers                                         *)
(***************************************************************************)
ScratchFunctions == {"push", "scriptsig_multisig", "scriptsig_p2pkh_sig", "pegin"}

\* C22: at every return of the push builder (hash scratch), the multisig
\* scriptSig builder (DER scratch array), the P2PKH scriptSig builder from a
\* compact signature (DER scratch) and the peg-in rewrite (raw tweak) the
\* scratch buffer holds no byte the function stored other than zero; a cell
\* no store has reached counts as clean
C22_ScratchZeroedAtReturn ==
    (op \in ScratchFunctions /\ pc = "called")
    => \A i \in DOMAIN res.scratch : res.scratch[i] \in {-1, 0}

(***************************************************************************)
(* Claims about the multisig witness                                        *)
(***************************************************************************)
\* C23: when allocation and the witness stack succeed (the DER encoder
\* accepts every 64-byte signature), the multisig witness builder returns
\* WALLY_OK or WALLY_EINVAL for every caller input, never WALLY_ERROR, also
\* when the number of signatures differs from the threshold opcode at the
\* start of the redeem script
C23_NoInternalErrorFromInput ==
    (op = "witness_multisig" /\ pc = "called" /\ args.malloc_ok /\ args.fail_at = 0)
    => res.ret \in {WALLY_OK, WALLY_EINVAL}

(***************************************************************************)
(* Claims about the classifier's patterns                                   *)
(***************************************************************************)
\* the tags of the matchers that accept a buffer
Matching(bytes, bytes_len, size_bits) ==
    {t \in {WALLY_SCRIPT_TYPE_OP_RETURN, WALLY_SCRIPT_TYPE_MULTISIG,
            WALLY_SCRIPT_TYPE_CSV2OF2_1, WALLY_SCRIPT_TYPE_CSV2OF2_1_OPT,
            WALLY_SCRIPT_TYPE_P2PKH, WALLY_SCRIPT_TYPE_P2SH, WALLY_SCRIPT_TYPE_P2WPKH,
            WALLY_SCRIPT_TYPE_P2WSH, WALLY_SCRIPT_TYPE_P2TR} :
        CASE t = WALLY_SCRIPT_TYPE_OP_RETURN -> scriptpubkey_is_op_return(bytes, bytes_len)
          [] t = WALLY_SCRIPT_TYPE_MULTISIG -> scriptpubkey_is_multisig(bytes, bytes_len, size_bits)
          [] t = WALLY_SCRIPT_TYPE_CSV2OF2_1 -> scriptpubkey_is_csv_2of2_then_1(bytes, bytes_len).ok
          [] t = WALLY_SCRIPT_TYPE_CSV2OF2_1_OPT
                -> scriptpubkey_is_csv_2of2_then_1_opt(bytes, bytes_len).ok
          [] t = WALLY_SCRIPT_TYPE_P2PKH -> scriptpubkey_is_p2pkh(bytes, bytes_len)
          [] t = WALLY_SCRIPT_TYPE_P2SH -> scriptpubkey_is_p2sh(bytes, bytes_len)
          [] t = WALLY_SCRIPT_TYPE_P2WPKH -> scriptpubkey_is_p2wpkh(bytes, bytes_len)
          [] t = WALLY_SCRIPT_TYPE_P2WSH -> scriptpubkey_is_p2wsh(bytes, bytes_len)
          [] t = WALLY_SCRIPT_TYPE_P2TR -> scriptpubkey_is_p2tr(bytes, bytes_len)}

\* C24: no buffer satisfies more than one of the matchers OP_RETURN,
\* multisig, CSV template A, CSV template B, P2PKH, P2SH, P2WPKH, P2WSH and
\* P2TR, so the tag get_type stores is the tag of the one matcher that
\* accepts, whatever the order the matchers are tried in, and Unknown when
\* none accepts
C24_MatchersDisjoint ==
    (/\ op = "get_type" /\ pc = "called"
     /\ args.bytes # NULL /\ args.bytes_len # 0 /\ ~args.written_null)
    => LET m == Matching(args.bytes, args.bytes_len, args.size_bits)
       IN  /\ Cardinality(m) <= 1
           /\ \A t \in m : res.written = t
           /\ m = {} => res.written = WALLY_SCRIPT_TYPE_UNKNOWN

\* a P2TR script that starts and ends as a multisig script does
C24_Witness ==
    /\ op = "get_type" /\ pc = "called" /\ args.kind = "p2tr" /\ args.pos = -1
    /\ At(args.bytes, 0) = OP_1 /\ At(args.bytes, 33) = OP_CHECKMULTISIG
    /\ Matching(args.bytes, args.bytes_len, args.size_bits) = {WALLY_SCRIPT_TYPE_P2TR}
    /\ res.written = WALLY_SCRIPT_TYPE_P2TR

(***************************************************************************)
(* Claims about builders and classifier together                            *)
(***************************************************************************)
\* C25: get_type classifies every successful output of the P2PKH, P2SH,
\* OP_RETURN and bare-multisig scriptPubkey builders as P2PKH, P2SH,
\* OP_RETURN and multisig, the P2TR builder's output as P2TR, and the
\* witness program builder's output without WALLY_SCRIPT_AS_PUSH as P2WPKH
\* for a version 0 program of 20 bytes, P2WSH for a version 0 program of 32
\* bytes and P2TR for a version 1 program of 32 bytes
C25_BuildersAndClassifierAgree ==
    (pc = "classified")
    => /\ res2.type.ret = WALLY_OK
       /\ op = "p2pkh" => res2.type.written = WALLY_SCRIPT_TYPE_P2PKH
       /\ op = "p2sh" => res2.type.written = WALLY_SCRIPT_TYPE_P2SH
       /\ op = "op_return" => res2.type.written = WALLY_SCRIPT_TYPE_OP_RETURN
       /\ op = "multisig" => res2.type.written = WALLY_SCRIPT_TYPE_MULTISIG
       /\ op = "p2tr" => res2.type.written = WALLY_SCRIPT_TYPE_P2TR
       /\ (op = "witness_program" /\ WALLY_SCRIPT_AS_PUSH \notin args.flags)
            => /\ (args.version = 0 /\ res.written = 2 + HASH160_LEN)
                    => res2.type.written = WALLY_SCRIPT_TYPE_P2WPKH
               /\ (args.version = 0 /\ res.written = 2 + SHA256_LEN)
                    => res2.type.written = WALLY_SCRIPT_TYPE_P2WSH
               /\ (args.version = 1 /\ res.written = 2 + SHA256_LEN)
                    => res2.type.written = WALLY_SCRIPT_TYPE_P2TR

\* a version 1 program of 32 bytes was built and classified
C25_Witness ==
    /\ pc = "classified" /\ op = "witness_program" /\ args.version = 1
    /\ args.flags = {} /\ args.bytes_len = SHA256_LEN
    /\ res2.type.written = WALLY_SCRIPT_TYPE_P2TR

\* a P2SH script was built and classified
C25_WitnessP2sh ==
    /\ pc = "classified" /\ op = "p2sh" /\ res.written = WALLY_SCRIPTPUBKEY_P2SH_LEN
    /\ res2.type.written = WALLY_SCRIPT_TYPE_P2SH

(***************************************************************************)
(* Claims about the bounds of the caller's buffers                          *)
(***************************************************************************)
\* what may lie in memory after the last byte of an input buffer
Beyond == {[i \in 1..5 |-> v] : v \in {0, EC_PUBLIC_KEY_LEN, OP_CHECKMULTISIG, 255}}

\* C26: no builder stores an output byte at an index >= len, whatever the
\* input and the capacity len, and no reader reads an input byte at an index
\* >= bytes_len: what get_push_size and the classifier (with its multisig
\* and CSV matchers) answer for a built script does not depend on the bytes
\* that follow the script in memory
C26_NoAccessBeyondBuffers ==
    /\ (op \in Builders /\ pc # "start") => res.out.wmax <= args.len
    /\ pc = "refilled" => res2.out.wmax <= res2.len
    /\ pc = "decoded"
         => \A x \in Beyond :
               LET bytes == SubSeq(res.out.mem, 1, res.written) \o x
               IN  /\ script_get_push_opcode_size_from_bytes(bytes, 0, res.written,
                                                             res2.size_bits) = res2.opcode
                   /\ script_get_push_size_from_bytes(bytes, 0, res.written,
                                                      res2.size_bits) = res2.push
    /\ pc = "classified"
         => \A x \in Beyond :
               /\ wally_scriptpubkey_get_type(res2.script \o x, res.written, FALSE,
                                              res2.size_bits) = res2.type
               /\ wally_scriptpubkey_csv_blocks_from_csv_2of2_then_1(
                      res2.script \o x, res.written, FALSE) = res2.csv

\* a builder was asked to fill a buffer one byte too short and stored nothing
C26_Witness ==
    /\ op = "p2tr" /\ pc = "called" /\ args.len = WALLY_SCRIPTPUBKEY_P2TR_LEN - 1
    /\ res.ret = WALLY_OK /\ res.written = WALLY_SCRIPTPUBKEY_P2TR_LEN
    /\ res.out.wmax = 0

\* a builder filled its buffer to the last byte
C26_WitnessFull ==
    /\ op = "multisig" /\ pc = "classified" /\ res.out.wmax = args.len
    /\ res2.type.written = WALLY_SCRIPT_TYPE_MULTISIG

\* the same for get_push_size and the classifier on the buffers of SpecRead:
\* the answer and the set of accepting matchers do not depend on the bytes
\* at indexes >= bytes_len
C26_ReadersWithinBuffer ==
    (pc = "called" /\ args.bytes # NULL /\ Len(args.bytes) = args.bytes_len)
    => \A x \in Beyond :
          /\ op = "get_push_size"
               => script_get_push_size_from_bytes(args.bytes \o x, 0, args.bytes_len,
                                                  args.size_bits) = res
          /\ op = "get_push_opcode_size"
               => script_get_push_opcode_size_from_bytes(args.bytes \o x, 0, args.bytes_len,
                                                         args.size_bits) = res
          /\ op = "get_type"
               => /\ wally_scriptpubkey_get_type(args.bytes \o x, args.bytes_len,
                                                  args.written_null, args.size_bits) = res
                  /\ args.bytes_len # 0
                       => Matching(args.bytes \o x, args.bytes_len, args.size_bits)
                          = Matching(args.bytes, args.bytes_len, args.size_bits)

\* the same for scriptsig_to_witness on the scriptSigs of SpecWitness
C26_WitnessReadsWithinBuffer ==
    (/\ op = "scriptsig_to_witness" /\ pc = "called"
     /\ args.bytes # NULL /\ Len(args.bytes) = args.bytes_len)
    => \A x \in Beyond :
          scriptsig_to_witness(args.bytes \o x, args.bytes_len, args.output_null,
                               args.fail_at, args.size_bits) = res

\* the same for the peg-in walker on the redeem scripts of SpecPegin, which
\* also stores nothing at an index >= len
C26_PeginWithinBuffers ==
    (/\ op = "pegin" /\ pc = "called"
     /\ args.redeem_script # NULL /\ Len(args.redeem_script) = args.redeem_script_len)
    => /\ res.out.wmax <= args.len
       /\ \A x \in Beyond :
             LET r == wally_elements_pegin_contract_script_from_bytes(
                          args.redeem_script \o x, args.redeem_script_len, args.script,
                          args.script_len, args.flags, FreshBuf(args.len), args.len,
                          args.ec_ok, args.size_bits)
             IN  r.ret = res.ret /\ r.written = res.written /\ r.out = res.out

\* the same for scriptint_from_bytes on the encodings of SpecInt
C26_ScriptintReadsWithinBuffer ==
    (op = "scriptint" /\ pc = "done")
    => \A x \in Beyond : scriptint_from_bytes(res.buf \o x, Len(res.buf)) = res2

====
